---------------------------- MODULE Spec2Model ----------------------------
(***************************************************************************)
(* A model of gladiunits' reference-resolution engine: the staged parse of *)
(* Upgrades, Traits, Weapons, Units and Buildings (parse.py), the context  *)
(* builder, the Dereferencer and the fixed-point loop (dereference.py) and *)
(* the record model with its placeholder discovery (data.py).              *)
(*                                                                         *)
(* Python objects live in `heap` (a sequence; an object's identity is its  *)
(* index).  A value is one of                                              *)
(*    [t |-> "none"]                       None                            *)
(*    [t |-> "scalar", v |-> s]            str / int / bool / enum         *)
(*    [t |-> "path", p |-> path]           a pathlib.Path                  *)
(*    [t |-> "origin", path |-> path]      a plain Origin instance         *)
(*    [t |-> "obj", id |-> i]              a reference to heap[i]          *)
(*    [t |-> "tuple", items |-> seq]       an (immutable) tuple            *)
(*    [t |-> "list", items |-> seq]        a list                          *)
(* A path is [parts |-> seq of segments, suffix |-> "" or ".xml"]; the     *)
(* last segment of parts is the stem.  A Python string that holds a path   *)
(* is modelled by the sequence of its "/"-separated segments.              *)
(***************************************************************************)
EXTENDS Integers, Sequences, FiniteSets, TLC

VARIABLES
    heap,       \* the Python objects created so far
    stage,      \* the stage parse_all is in: 1 Upgrades .. 5 Buildings, 6 producers
    pc,         \* "parse", "loop", "producers", "done", "construct", "constructed" or "raised"
    resolved,   \* dereference's `resolved` dict: a sequence of [key, id] in insertion order
    stack,      \* dereference's deque of unresolved records (ids)
    batch,      \* the records handed to get_context by the current stage (ids)
    ret,        \* the five lists returned by the latest dereference call
    out,        \* parse_all's locals: upgrades, traits, weapons, units, buildings
    call        \* the dataclass construction under way, when one is run on its own

vars == <<heap, stage, pc, resolved, stack, batch, ret, out, call>>

-----------------------------------------------------------------------------
(* Program constants of data.py *)

CATEGORIES ==
    {"Actions", "Buildings", "Cities", "Factions", "Features", "Items",
     "Scenarios", "Traits", "Units", "Upgrades", "Weapons", "WorldParameters"}

PARSED_CATEGORIES == {"Buildings", "Traits", "Units", "Upgrades", "Weapons"}

FACTIONS ==
    {"AdeptusMechanicus", "AstraMilitarum", "ChaosSpaceMarines", "Drukhari",
     "Eldar", "Necrons", "Neutral", "Orks", "SistersOfBattle", "SpaceMarines",
     "Tau", "Tyranids"}

CIRCULAR_REFS ==
    {<<"Units", "ChaosSpaceMarines", "MasterOfPossession">>,
     <<"Units", "Eldar", "FirePrism">>,
     <<"Units", "Neutral", "Artefacts", "Damage">>,
     <<"Units", "Neutral", "Artefacts", "Healing">>,
     <<"Units", "Neutral", "Artefacts", "Hitpoints">>,
     <<"Units", "Neutral", "Artefacts", "Loyalty">>,
     <<"Units", "Neutral", "Artefacts", "Movement">>,
     <<"Units", "Neutral", "Artefacts", "Sight">>,
     <<"Units", "Neutral", "CatachanDevilLair">>,
     <<"Units", "Neutral", "Psychneuein">>,
     <<"Units", "SpaceMarines", "Hunter">>,
     <<"Units", "SpaceMarines", "Predator">>,
     <<"Units", "SpaceMarines", "ThunderfireCannon">>,
     <<"Units", "SpaceMarines", "Vindicator">>,
     <<"Units", "SpaceMarines", "Whirlwind">>,
     <<"Traits", "ChaosSpaceMarines", "GiftOfMutation">>,
     <<"Traits", "ChaosSpaceMarines", "Bloated">>,
     <<"Traits", "Tau", "TargetAcquired">>}
    \cup {<<"Buildings", f, "Construction">> : f \in FACTIONS}

-----------------------------------------------------------------------------
(* pathlib.Path *)

\* a local variable: G applied to the value of e
Let(e, G(_)) == G(e)

MkPath(parts, suffix) == [parts |-> parts, suffix |-> suffix]

Last(s) == s[Len(s)]
Front(s) == SubSeq(s, 1, Len(s) - 1)

\* str(path): the segments of the string, the last one with its suffix
PathStr(p) == Front(p.parts) \o <<Last(p.parts) \o p.suffix>>

\* path.parts
Parts(p) == PathStr(p)

\* the name of the k-th ancestor: path.parent.name is AncestorName(p, 1);
\* past the first segment the parent is Path("."), whose name is ""
AncestorName(p, k) ==
    IF Len(p.parts) - k >= 1 THEN p.parts[Len(p.parts) - k] ELSE ""

\* tuple.index(x): the first position of x (1-based here), 0 when x is absent
\* (Python raises ValueError)
IndexOf(s, x) ==
    IF \E i \in 1..Len(s) : s[i] = x
    THEN CHOOSE i \in 1..Len(s) : s[i] = x /\ \A j \in 1..(i - 1) : s[j] # x
    ELSE 0

-----------------------------------------------------------------------------
(* Origin *)

\* Origin.category
Category(p) ==
    IF AncestorName(p, 1) \in FACTIONS THEN AncestorName(p, 2)
    ELSE IF AncestorName(p, 2) \in FACTIONS THEN AncestorName(p, 3)
    ELSE Let(IF AncestorName(p, 1) = "Artefacts"
             THEN IF AncestorName(p, 2) \in CATEGORIES
                  THEN AncestorName(p, 2) ELSE AncestorName(p, 3)
             ELSE IF AncestorName(p, 1) = "Items" /\ AncestorName(p, 2) = "Traits"
                  THEN "Traits" ELSE AncestorName(p, 1),
             LAMBDA c :
               IF c = Last(p.parts)
               THEN Let(IndexOf(Parts(p), c),
                        LAMBDA idx : IF idx > 1 THEN Parts(p)[idx - 1] ELSE c)
               ELSE c)

\* Origin.category_path, as str(...): the segments from the category on, the
\* last one without its suffix
CategoryPath(p) ==
    LET idx == IndexOf(Parts(p), Category(p))
    IN SubSeq(p.parts, idx, Len(p.parts))

\* Origin.__post_init__: the construction succeeds iff the category is known
OriginValid(p) == Category(p) \in CATEGORIES

\* Origin.__str__
OriginStr(p) == PathStr(p)

-----------------------------------------------------------------------------
(* Values *)

None == [t |-> "none"]
Scalar(s) == [t |-> "scalar", v |-> s]
PathV(p) == [t |-> "path", p |-> p]
OriginV(p) == [t |-> "origin", path |-> p]
Obj(i) == [t |-> "obj", id |-> i]
Tuple(items) == [t |-> "tuple", items |-> items]
List(items) == [t |-> "list", items |-> items]

\* the classes whose instances are records with an identity path
RecordClasses == {"Upgrade", "Trait", "Weapon", "Unit", "Building"}

\* the raw path of a record object
PathOf(h, i) == h[i].fs.path.p

\* str(record): Origin.__str__ inherited by every record class
RecordStr(h, i) == OriginStr(PathOf(h, i))

\* str(record.category_path)
RecordKey(h, i) == CategoryPath(PathOf(h, i))

-----------------------------------------------------------------------------
(* Placeholder discovery (data.py) *)

\* a faulty is_unresolved_ref: the allowlist of circular references is not
\* consulted
is_unresolved_ref_no_allowlist(v) ==
    IF v.t # "origin" THEN FALSE
    ELSE Category(v.path) \in PARSED_CATEGORIES

\* is_unresolved_ref(value)
is_unresolved_ref(v) ==
    IF v.t # "origin" THEN FALSE
    ELSE IF CategoryPath(v.path) \in CIRCULAR_REFS THEN FALSE
    ELSE Category(v.path) \in PARSED_CATEGORIES

\* str(i) of an index and token.isdigit() / int(token) of a breadcrumb token
Digits == <<"0", "1", "2", "3", "4", "5", "6", "7", "8", "9">>
IndexToken(i) == Digits[i + 1]
IsDigit(tok) == \E i \in 1..Len(Digits) : Digits[i] = tok
TokenIndex(tok) == IndexOf(Digits, tok) - 1

\* collect_unresolved_refs(obj, crumbs): the dict as a set of its items
\* [crumbs |-> breadcrumb, ref |-> Origin].  Only dataclass instances are
\* walked; a field named "reference" is skipped; the elements of a tuple or
\* list field are tested and, when not eligible, walked; any other field is
\* tested but never walked.
RECURSIVE collect_unresolved_refs(_, _, _)
collect_unresolved_refs(h, v, crumbs) ==
    IF v.t # "obj" THEN {}
    ELSE UNION {
           Let(h[v.id].fs[f], LAMBDA value :
             IF value.t \in {"tuple", "list"}
             THEN UNION {
                    Let(crumbs \o <<f, IndexToken(i - 1)>>, LAMBDA at :
                      IF is_unresolved_ref(value.items[i])
                      THEN {[crumbs |-> at, ref |-> value.items[i]]}
                      ELSE collect_unresolved_refs(h, value.items[i], at))
                    : i \in 1..Len(value.items) }
             ELSE IF is_unresolved_ref(value)
                  THEN {[crumbs |-> crumbs \o <<f>>, ref |-> value]}
                  ELSE {})
           : f \in (DOMAIN h[v.id].fs) \ {"reference"} }

\* the unresolved_refs property of every record class
unresolved_refs(h, i) == collect_unresolved_refs(h, Obj(i), <<>>)

\* the is_resolved property
is_resolved(h, i) == unresolved_refs(h, i) = {}

-----------------------------------------------------------------------------
(* The resolved dict (insertion ordered) *)

DictKeys(d) == {d[i].key : i \in 1..Len(d)}
DictHas(d, k) == \E i \in 1..Len(d) : d[i].key = k
DictGet(d, k) == d[CHOOSE i \in 1..Len(d) : d[i].key = k].id
DictValues(d) == [i \in 1..Len(d) |-> d[i].id]

\* a faulty d[k] = id: the dict is rebound to one that holds the new entry only
DictSet_rebinding(d, k, id) == <<[key |-> k, id |-> id]>>

\* d[k] = id: a new key is appended, an existing key keeps its position
DictSet(d, k, id) ==
    IF DictHas(d, k)
    THEN [i \in 1..Len(d) |-> IF d[i].key = k THEN [key |-> k, id |-> id] ELSE d[i]]
    ELSE Append(d, [key |-> k, id |-> id])

-----------------------------------------------------------------------------
(* Dereferencer (dereference.py) *)

\* Dereferencer._get_resolved: the breadcrumbs whose placeholder has an entry
\* under str(value), with the entry
get_resolved(h, base, context) ==
    { [crumbs |-> e.crumbs, replacer |-> Obj(DictGet(context, OriginStr(e.ref.path)))] :
         e \in { x \in unresolved_refs(h, base) : DictHas(context, OriginStr(x.ref.path)) } }

RECURSIVE resolve_crumbs(_, _, _, _)

\* a faulty resolve: the pass also writes into the context record it links to
resolve_crumbs_marking(h, id, crumbs, replacer) ==
    Let(h[id].fs[crumbs[1]], LAMBDA value :
      IF Len(crumbs) = 1
      THEN [ok |-> TRUE,
            heap |-> [h EXCEPT ![id].fs[crumbs[1]] = replacer,
                               ![replacer.id].fs.description = Scalar("linked")]]
      ELSE IF ~IsDigit(crumbs[2])
      THEN IF value.t = "obj"
           THEN resolve_crumbs(h, value.id, Tail(crumbs), replacer)
           ELSE [ok |-> FALSE, heap |-> h]
      ELSE Let(TokenIndex(crumbs[2]) + 1, LAMBDA i :
             IF Len(crumbs) = 2
             THEN IF value.t = "list"
                  THEN [ok |-> TRUE,
                        heap |-> [h EXCEPT ![id].fs[crumbs[1]].items[i] = replacer]]
                  ELSE [ok |-> FALSE, heap |-> h]
             ELSE IF value.items[i].t = "obj"
                  THEN resolve_crumbs(h, value.items[i].id,
                                      SubSeq(crumbs, 3, Len(crumbs)), replacer)
                  ELSE [ok |-> FALSE, heap |-> h]))

\* One breadcrumb of Dereferencer.resolve: walk from object `id` along
\* `crumbs` and store `replacer` at the last token.  A last token that is a
\* digit is an item assignment: it works on a list and raises TypeError on a
\* tuple.  The result is [ok |-> FALSE] when Python raises.
resolve_crumbs(h, id, crumbs, replacer) ==
    Let(h[id].fs[crumbs[1]], LAMBDA value :
      IF Len(crumbs) = 1
      THEN [ok |-> TRUE, heap |-> [h EXCEPT ![id].fs[crumbs[1]] = replacer]]
      ELSE IF ~IsDigit(crumbs[2])
      THEN IF value.t = "obj"
           THEN resolve_crumbs(h, value.id, Tail(crumbs), replacer)
           ELSE [ok |-> FALSE, heap |-> h]
      ELSE Let(TokenIndex(crumbs[2]) + 1, LAMBDA i :
             IF Len(crumbs) = 2
             THEN IF value.t = "list"
                  THEN [ok |-> TRUE,
                        heap |-> [h EXCEPT ![id].fs[crumbs[1]].items[i] = replacer]]
                  ELSE [ok |-> FALSE, heap |-> h]
             ELSE IF value.items[i].t = "obj"
                  THEN resolve_crumbs(h, value.items[i].id,
                                      SubSeq(crumbs, 3, Len(crumbs)), replacer)
                  ELSE [ok |-> FALSE, heap |-> h]))

\* Dereferencer.resolve: every breadcrumb of _resolved in turn; the first
\* one that raises ends the pass, the earlier replacements stay
RECURSIVE resolve_all(_, _, _)
resolve_all(h, base, todo) ==
    IF todo = {} THEN [ok |-> TRUE, heap |-> h]
    ELSE Let(CHOOSE x \in todo : TRUE, LAMBDA e :
           Let(resolve_crumbs(h, base, e.crumbs, e.replacer), LAMBDA r :
             IF r.ok THEN resolve_all(r.heap, base, todo \ {e}) ELSE r))

\* Dereferencer(obj, context).resolve()
Dereferencer(h, base, context) == resolve_all(h, base, get_resolved(h, base, context))

-----------------------------------------------------------------------------
(* The dataclasses of data.py.  Each constructor gives the object that the  *)
(* class's __init__ stores; the heap index is chosen by the caller.         *)

NewObj(h, o) == [heap |-> Append(h, o), id |-> Len(h) + 1]

\* Parameter(type, value)
Parameter(type, value) == [cls |-> "Parameter", fs |-> [type |-> Scalar(type), value |-> value]]

\* Effect(name, params, sub_effects)
Effect(name, params, sub_effects) ==
    [cls |-> "Effect",
     fs |-> [name |-> Scalar(name), params |-> Tuple(params), sub_effects |-> Tuple(sub_effects)]]

\* Modifier(required_upgrade, type, conditions, effects)
Modifier(required_upgrade, type, conditions, effects) ==
    [cls |-> "Modifier",
     fs |-> [required_upgrade |-> required_upgrade, type |-> Scalar(type),
             conditions |-> Tuple(conditions), effects |-> Tuple(effects)]]

\* Target(modifiers, is_self_target, max_range, min_range, line_of_sight, conditions)
Target(modifiers, conditions) ==
    [cls |-> "Target",
     fs |-> [modifiers |-> Tuple(modifiers), is_self_target |-> Scalar("False"),
             max_range |-> None, min_range |-> None, line_of_sight |-> None,
             conditions |-> Tuple(conditions)]]

\* Upgrade(path, name, description, flavor, reference, tier, dlc, required_upgrades)
Upgrade(path, name, reference, tier, dlc, required_upgrades) ==
    [cls |-> "Upgrade",
     fs |-> [path |-> PathV(path), name |-> Scalar(name), description |-> None,
             flavor |-> None, reference |-> reference, tier |-> tier, dlc |-> dlc,
             required_upgrades |-> Tuple(required_upgrades)]]

\* UpgradeWrapper(upgrade, required_upgrades)
UpgradeWrapper(upgrade, required_upgrades) ==
    [cls |-> "UpgradeWrapper",
     fs |-> [upgrade |-> upgrade, required_upgrades |-> List(required_upgrades)]]

\* Trait(path, ..., required_upgrade)
Trait(path, name, reference, modifiers, required_upgrade) ==
    [cls |-> "Trait",
     fs |-> [path |-> PathV(path), name |-> Scalar(name), description |-> None,
             flavor |-> None, reference |-> reference, modifiers |-> modifiers,
             required_upgrade |-> required_upgrade, type |-> None,
             target_conditions |-> Tuple(<<>>), max_rank |-> None, stacking |-> None]]

\* Weapon(path, ..., enabled)
Weapon(path, name, reference, modifiers, required_upgrade, traits, target, count, enabled) ==
    [cls |-> "Weapon",
     fs |-> [path |-> PathV(path), name |-> Scalar(name), description |-> None,
             flavor |-> None, reference |-> reference, modifiers |-> modifiers,
             required_upgrade |-> required_upgrade, traits |-> traits,
             type |-> Scalar("weapon"), target |-> target, count |-> count,
             enabled |-> enabled]]

\* Action(reference, modifiers, name, params, texts, conditions, targets,
\*        required_upgrade, required_weapons)
Action(name, params) ==
    [cls |-> "Action",
     fs |-> [reference |-> None, modifiers |-> Tuple(<<>>), required_upgrade |-> None,
             name |-> Scalar(name), params |-> Tuple(params), texts |-> None,
             conditions |-> Tuple(<<>>), targets |-> Tuple(<<>>),
             required_weapons |-> Tuple(<<>>)]]

\* Unit(path, ..., producer)
Unit(path, name, reference, modifiers, weapons, actions, traits, required_upgrade, producer) ==
    [cls |-> "Unit",
     fs |-> [path |-> PathV(path), name |-> Scalar(name), description |-> None,
             flavor |-> None, reference |-> reference, modifiers |-> modifiers,
             traits |-> traits, actions |-> actions, required_upgrade |-> required_upgrade,
             group_size |-> Scalar("1"), weapons |-> weapons, dlc |-> None,
             producer |-> producer]]

\* Building(path, ..., required_upgrade)
Building(path, name, modifiers, actions, traits, required_upgrade) ==
    [cls |-> "Building",
     fs |-> [path |-> PathV(path), name |-> Scalar(name), description |-> None,
             flavor |-> None, modifiers |-> modifiers, actions |-> actions,
             traits |-> traits, required_upgrade |-> required_upgrade]]

\* the keys of Parameter.TYPES
TYPES ==
    {"action", "add", "addMax", "addMin", "base", "beginOnDisappear", "building",
     "charges", "consumedAction", "consumedActionPoints", "consumedMovement",
     "cooldown", "cooldownMin", "cooldownMax", "cooldownRemaining",
     "cooldownScalesWithPace", "costScalesWithPace", "count", "countMax",
     "disableable", "duration", "durationMin", "durationMax", "elite", "enabled",
     "equal", "feature", "greater", "interfaceSound", "less", "levelMin",
     "levelMax", "levelUpPriority", "match", "max", "min", "minMax", "minMin",
     "mul", "mulMax", "mulMin", "name", "passive", "psychicPower", "radius",
     "rank", "rankMax", "range", "reference", "removeOnSourceDeath",
     "requiredActionPoints", "requiredMovement", "requiredUpgrade", "shoutString",
     "slotName", "unit", "unitType", "usableInTransport", "visible", "weapon",
     "weaponSlotName", "weaponSlotNames"}

\* a faulty Parameter.__post_init__: every type name is let through
Parameter_post_init_any(type) == TRUE

\* Parameter.__post_init__: TRUE iff it raises nothing
Parameter_post_init(type) == type \in TYPES

\* Upgrade.__post_init__ (tier is None or an int)
Upgrade_post_init(path, tier) ==
    /\ OriginValid(path)
    /\ Category(path) = "Upgrades"
    /\ ~(tier.t = "scalar" /\ tier.v # 0 /\ tier.v \notin 1..10)

\* Trait.__post_init__
Trait_post_init(path) == OriginValid(path) /\ Category(path) = "Traits"

\* Weapon.__post_init__
Weapon_post_init(path) == OriginValid(path) /\ Category(path) = "Weapons"

\* a faulty Unit.__post_init__: only the check of Origin is made
Unit_post_init_of_origin(path) == OriginValid(path)

\* Unit.__post_init__
Unit_post_init(path) == OriginValid(path) /\ Category(path) = "Units"

\* Building defines no __post_init__: the one it inherits is Origin's
Building_post_init(path) == OriginValid(path)

\* the __post_init__ that the construction `c` runs
post_init(c) ==
    CASE c.cls = "Parameter" -> Parameter_post_init(c.type)
      [] c.cls = "Upgrade" -> Upgrade_post_init(c.path, c.tier)
      [] c.cls = "Trait" -> Trait_post_init(c.path)
      [] c.cls = "Weapon" -> Weapon_post_init(c.path)
      [] c.cls = "Unit" -> Unit_post_init(c.path)
      [] OTHER -> Building_post_init(c.path)

\* the construction that has made object o
CallOf(o) ==
    [cls |-> o.cls,
     path |-> IF "path" \in DOMAIN o.fs THEN o.fs.path.p ELSE MkPath(<<>>, ""),
     tier |-> IF o.cls = "Upgrade" THEN o.fs.tier ELSE None,
     type |-> IF o.cls = "Parameter" THEN o.fs.type.v ELSE ""]

\* the first object of h after the n-th whose construction raises, 0 if none
FirstRaising(h, n) ==
    Let({i \in (n + 1)..Len(h) :
           h[i].cls \in RecordClasses \cup {"Parameter"} /\ ~post_init(CallOf(h[i]))},
        LAMBDA bad : IF bad = {} THEN 0 ELSE CHOOSE i \in bad : \A j \in bad : i <= j)

\* a faulty to_upgrade: the new Upgrade gets the category path for its path
to_upgrade_category_path(h, w) ==
    Let(h[h[w].fs.upgrade.id].fs, LAMBDA u :
      [cls |-> "Upgrade",
       fs |-> [path |-> PathV(MkPath(CategoryPath(u.path.p), "")), name |-> u.name,
               description |-> u.description, flavor |-> u.flavor,
               reference |-> u.reference, tier |-> u.tier, dlc |-> u.dlc,
               required_upgrades |-> Tuple(h[w].fs.required_upgrades.items)]])

\* a faulty to_upgrade: the new Upgrade is made without the wrapper's list
to_upgrade_without_required(h, w) ==
    Let(h[h[w].fs.upgrade.id].fs, LAMBDA u :
      [cls |-> "Upgrade",
       fs |-> [path |-> u.path, name |-> u.name, description |-> u.description,
               flavor |-> u.flavor, reference |-> u.reference, tier |-> u.tier,
               dlc |-> u.dlc, required_upgrades |-> Tuple(<<>>)]])

\* UpgradeWrapper.to_upgrade: a new Upgrade with the wrapped upgrade's path,
\* texts, reference, tier and dlc and the wrapper's list copied into a tuple
to_upgrade(h, w) ==
    LET u == h[h[w].fs.upgrade.id].fs
    IN [cls |-> "Upgrade",
        fs |-> [path |-> u.path, name |-> u.name, description |-> u.description,
                flavor |-> u.flavor, reference |-> u.reference, tier |-> u.tier,
                dlc |-> u.dlc,
                required_upgrades |-> Tuple(h[w].fs.required_upgrades.items)]]

\* Trait.with_upgrade(trait, required_upgrade): a copy that shares every
\* field value of `trait` but required_upgrade
with_upgrade(h, trait, required_upgrade) ==
    [h[trait] EXCEPT !.fs.required_upgrade = required_upgrade]

\* Weapon.with_additional_data(weapon, count, enabled, required_upgrade)
with_additional_data(h, weapon, count, enabled, required_upgrade) ==
    [h[weapon] EXCEPT !.fs.count = count, !.fs.enabled = enabled,
                      !.fs.required_upgrade = required_upgrade]

\* Unit.with_producer(unit, producer)
with_producer(h, unit, producer) == [h[unit] EXCEPT !.fs.producer = producer]

-----------------------------------------------------------------------------
(* The parsers of parse.py.  The XML reader is outside the model: a source *)
(* file is given by what the parser reads from it,                         *)
(*   [cls, path, refs, traits, weapons]                                    *)
(* where refs is the sequence of its cross-references [kind, to]:          *)
(*   "req"     a <requiredUpgrades><upgrade name=.../> of an upgrade file  *)
(*   "param"   an attribute of an effect that to_param turns into an Origin*)
(*   "slots"   a weaponSlotNames attribute of an effect (a tuple of them)  *)
(*   "target"  an attribute of a condition of a weapon's <target>          *)
(*   "produce" a <produceUnit unit=.../> action of a unit or building      *)
(*   "icon"    an icon attribute of an effect: `to` is the path as written,  *)
(*             which may carry a file extension                            *)
(*   "plain"   an attribute of an effect whose name `to` is not a key of    *)
(*             Parameter.TYPES, or is one of a type other than Origin       *)
(* traits is the <traits> list as [name, upgrade] and weapons the          *)
(* <weapons> list of a unit as context keys.                               *)

\* XmlParser._get_context_value(origin)
get_context_value(ctx, origin) ==
    Let(CategoryPath(origin.path), LAMBDA key :
      IF DictHas(ctx, key) THEN Obj(DictGet(ctx, key)) ELSE origin)

\* the attribute that carries a reference to a record of the given category,
\* each a key of Parameter.TYPES
AttrOf(category) ==
    CASE category = "Traits" -> "name"
      [] category = "Weapons" -> "weapon"
      [] category = "Units" -> "unit"
      [] category = "Buildings" -> "building"
      [] category = "Upgrades" -> "requiredUpgrade"
      [] OTHER -> "action"

\* XmlParser.to_param for a reference attribute
to_param(ctx, ref) ==
    IF ref.kind = "plain"
    THEN Parameter(Last(ref.to.parts), Scalar("1"))
    ELSE IF ref.kind = "icon"
    THEN Parameter("reference", get_context_value(ctx, OriginV(ref.to)))
    ELSE IF ref.kind = "slots"
    THEN Parameter("weaponSlotNames", Tuple(<<get_context_value(ctx, OriginV(ref.to))>>))
    ELSE Parameter(AttrOf(Category(ref.to)), get_context_value(ctx, OriginV(ref.to)))

\* XmlParser.parse_modifiers / _parse_modifier / parse_effects / to_effect for
\* a file whose references all sit in one effect of one modifier: the
\* Parameters, the Effect and the Modifier are allocated in this order
parse_modifiers(h, ctx, refs) ==
    IF refs = <<>> THEN [heap |-> h, value |-> Tuple(<<>>)]
    ELSE Let(Len(h), LAMBDA n : Let(Len(refs), LAMBDA k :
           [heap |-> h \o [i \in 1..k |-> to_param(ctx, refs[i])]
                      \o <<Effect("effect", [i \in 1..k |-> Obj(n + i)], <<>>),
                           Modifier(None, "modifiers", <<>>, <<Obj(n + k + 1)>>)>>,
            value |-> Tuple(<<Obj(n + k + 2)>>)]))

\* XmlParser.parse_target for a <target> whose conditions hold the references
parse_target(h, ctx, refs) ==
    IF refs = <<>> THEN [heap |-> h, value |-> None]
    ELSE Let(Len(h), LAMBDA n : Let(Len(refs), LAMBDA k :
           [heap |-> h \o [i \in 1..k |-> to_param(ctx, refs[i])]
                      \o <<Effect("condition", [i \in 1..k |-> Obj(n + i)], <<>>),
                           Target(<<>>, <<Obj(n + k + 1)>>)>>,
            value |-> Obj(n + k + 2)]))

\* XmlParser.parse_trait for each element of <traits>: the context's trait,
\* or a with_upgrade copy of it when the element names a required upgrade
RECURSIVE parse_traits_el(_, _, _)
parse_traits_el(h, ctx, els) ==
    IF els = <<>> THEN [heap |-> h, items |-> <<>>]
    ELSE Let(IF els[1].upgrade = <<>>
             THEN [heap |-> h, id |-> DictGet(ctx, els[1].name)]
             ELSE NewObj(h, with_upgrade(h, DictGet(ctx, els[1].name),
                                         Obj(DictGet(ctx, els[1].upgrade)))),
             LAMBDA one :
               Let(parse_traits_el(one.heap, ctx, Tail(els)), LAMBDA rest :
                 [heap |-> rest.heap, items |-> <<Obj(one.id)>> \o rest.items]))

\* UnitParser._parse_weapon for each element of <weapons>
RECURSIVE parse_weapons_el(_, _, _)
parse_weapons_el(h, ctx, els) ==
    IF els = <<>> THEN [heap |-> h, items |-> <<>>]
    ELSE Let(NewObj(h, with_additional_data(h, DictGet(ctx, els[1]),
                                            Scalar("1"), Scalar("True"), None)),
             LAMBDA one :
               Let(parse_weapons_el(one.heap, ctx, Tail(els)), LAMBDA rest :
                 [heap |-> rest.heap, items |-> <<Obj(one.id)>> \o rest.items]))

\* _ActionSubParser(el).to_data() for each <produceUnit unit=.../> action
RECURSIVE parse_actions(_, _, _)
parse_actions(h, ctx, refs) ==
    IF refs = <<>> THEN [heap |-> h, items |-> <<>>]
    ELSE Let(Len(h), LAMBDA n :
           Let(parse_actions(
                 h \o <<Parameter("unit", get_context_value(ctx, OriginV(refs[1].to))),
                        Action("produceUnit", <<Obj(n + 1)>>)>>,
                 ctx, Tail(refs)),
               LAMBDA rest :
                 [heap |-> rest.heap, items |-> <<Obj(n + 2)>> \o rest.items]))

\* XmlParser.get_required_upgrade_from_context
get_required_upgrade_from_context(ctx, path) ==
    Let(<<"Upgrades">> \o Tail(CategoryPath(path)), LAMBDA name :
      IF DictHas(ctx, name) THEN Obj(DictGet(ctx, name)) ELSE None)

RefsOfKind(refs, kinds) == SelectSeq(refs, LAMBDA r : r.kind \in kinds)

\* XxxParser(file, context).to_data(): the new heap and the record's id
to_data(h, ctx, f) ==
    Let(Last(f.path.parts), LAMBDA name :
      CASE f.cls = "Upgrade" ->
             Let(NewObj(h, Upgrade(f.path, name, None, Scalar(1), None, <<>>)), LAMBDA u :
             Let(RefsOfKind(f.refs, {"req"}), LAMBDA reqs :
               IF reqs = <<>> THEN u
               ELSE NewObj(u.heap,
                           UpgradeWrapper(Obj(u.id),
                                          [i \in 1..Len(reqs) |-> OriginV(reqs[i].to)]))))
        [] f.cls = "Trait" ->
             Let(parse_modifiers(h, ctx, RefsOfKind(f.refs, {"param", "slots", "icon", "plain"})), LAMBDA m :
               NewObj(m.heap, Trait(f.path, name, None, m.value, None)))
        [] f.cls = "Weapon" ->
             Let(parse_modifiers(h, ctx, RefsOfKind(f.refs, {"param", "slots", "icon", "plain"})), LAMBDA m :
             Let(parse_target(m.heap, ctx, RefsOfKind(f.refs, {"target"})), LAMBDA tg :
             Let(parse_traits_el(tg.heap, ctx, f.traits), LAMBDA tr :
               NewObj(tr.heap, Weapon(f.path, name, None, m.value, None,
                                      Tuple(tr.items), tg.value, None, None)))))
        [] f.cls = "Unit" ->
             Let(parse_modifiers(h, ctx, RefsOfKind(f.refs, {"param", "slots", "icon", "plain"})), LAMBDA m :
             Let(parse_weapons_el(m.heap, ctx, f.weapons), LAMBDA w :
             Let(parse_actions(w.heap, ctx, RefsOfKind(f.refs, {"produce"})), LAMBDA a :
             Let(parse_traits_el(a.heap, ctx, f.traits), LAMBDA tr :
               NewObj(tr.heap, Unit(f.path, name, None, m.value, Tuple(w.items),
                                    Tuple(a.items), Tuple(tr.items),
                                    get_required_upgrade_from_context(ctx, f.path),
                                    None))))))
        [] f.cls = "Building" ->
             Let(parse_modifiers(h, ctx, RefsOfKind(f.refs, {"param", "slots", "icon", "plain"})), LAMBDA m :
             Let(parse_actions(m.heap, ctx, RefsOfKind(f.refs, {"produce"})), LAMBDA a :
             Let(parse_traits_el(a.heap, ctx, f.traits), LAMBDA tr :
               NewObj(tr.heap, Building(f.path, name, m.value, Tuple(a.items),
                                        Tuple(tr.items),
                                        get_required_upgrade_from_context(ctx, f.path)))))))

\* [XxxParser(f, context).to_data() for f in files]
RECURSIVE parse_files(_, _, _)
parse_files(h, ctx, files) ==
    IF files = <<>> THEN [heap |-> h, items |-> <<>>]
    ELSE Let(to_data(h, ctx, files[1]), LAMBDA one :
           Let(parse_files(one.heap, ctx, Tail(files)), LAMBDA rest :
             [heap |-> rest.heap, items |-> <<one.id>> \o rest.items]))

\* {str(obj.category_path): obj for obj in objs}
RECURSIVE context_of(_, _)
context_of(h, objs) ==
    IF objs = <<>> THEN <<>>
    ELSE DictSet(context_of(h, Front(objs)), RecordKey(h, Last(objs)), Last(objs))

-----------------------------------------------------------------------------
(* Python's order of the strings that hold paths *)

\* the segments the model's paths are made of, in ascending (ASCII) order
SegOrder ==
    <<"A.xml", "B.xml", "BA.xml", "Buildings", "NA.xml", "TA.xml",
      "TargetAcquired.xml", "Tau", "Traits", "Units", "Upgrades", "WA.xml",
      "Weapons", "World", "xml">>

SegLess(a, b) == IndexOf(SegOrder, a) < IndexOf(SegOrder, b)

\* a < b for two such strings: no segment holds a character below "/", so
\* the order of the strings is the lexicographic order of their segments
RECURSIVE StrLess(_, _)
StrLess(a, b) ==
    IF b = <<>> THEN FALSE
    ELSE IF a = <<>> THEN TRUE
    ELSE IF a[1] = b[1] THEN StrLess(Tail(a), Tail(b))
    ELSE SegLess(a[1], b[1])

\* a faulty sort: the list is left in the order of the dict
sort_by_str_unsorted(h, lst) == lst

\* a faulty sort: the list is reversed
sort_by_str_reversing(h, lst) == [i \in 1..Len(lst) |-> lst[Len(lst) + 1 - i]]

\* lst.sort(key=str): a stable sort of records by str(record)
RECURSIVE sort_by_str(_, _)
sort_by_str(h, lst) ==
    IF lst = <<>> THEN <<>>
    ELSE Let(sort_by_str(h, Front(lst)), LAMBDA sorted :
           \* Last(lst) goes after every element that is not greater than it
           Let(Cardinality({i \in 1..Len(sorted) :
                              ~StrLess(RecordStr(h, Last(lst)), RecordStr(h, sorted[i]))}),
               LAMBDA k :
                 SubSeq(sorted, 1, k) \o <<Last(lst)>> \o SubSeq(sorted, k + 1, Len(sorted))))

-----------------------------------------------------------------------------
(* dereference.py *)

IsWrapper(h, i) == h[i].cls = "UpgradeWrapper"

\* sift_upgrades(*upgrades): (true upgrades, wrappers), each in input order
sift_upgrades(h, upgrades) ==
    <<SelectSeq(upgrades, LAMBDA u : ~IsWrapper(h, u)),
      SelectSeq(upgrades, LAMBDA u : IsWrapper(h, u))>>

\* a faulty get_context: the records that hold placeholders are dropped
get_context_loop_dropping(h, parsed) ==
    [ok |-> TRUE,
     resolved |-> context_of(h, SelectSeq(parsed, LAMBDA i : is_resolved(h, i))),
     unresolved |-> <<>>]

\* the loop of get_context over `parsed`; reading category_path of an
\* UpgradeWrapper raises AttributeError
RECURSIVE get_context_loop(_, _)
get_context_loop(h, parsed) ==
    IF parsed = <<>> THEN [ok |-> TRUE, resolved |-> <<>>, unresolved |-> <<>>]
    ELSE Let(get_context_loop(h, Front(parsed)), LAMBDA c :
         Let(Last(parsed), LAMBDA item :
           IF ~c.ok THEN c
           ELSE IF is_resolved(h, item)
           THEN IF IsWrapper(h, item) THEN [c EXCEPT !.ok = FALSE]
                ELSE [c EXCEPT !.resolved = DictSet(@, RecordKey(h, item), item)]
           ELSE [c EXCEPT !.unresolved = Append(@, item)]))

\* get_context(upgrades, traits, weapons, units, buildings)
get_context(h, upgrades, traits, weapons, units, buildings) ==
    Let(sift_upgrades(h, upgrades), LAMBDA sifted :
      get_context_loop(h, sifted[1] \o sifted[2] \o traits \o weapons \o units \o buildings))

\* a faulty parse_buildings: it passes "Buildings" as parse_units does
ignored_categories_as_units(k) ==
    CASE k = 1 -> {}
      [] k = 2 -> {"Weapons", "Units", "Buildings"}
      [] k = 3 -> {"Units", "Buildings"}
      [] OTHER -> {"Buildings"}

\* the ignored_categories of the dereference call of each stage
\* (parse_upgrades, parse_traits, parse_weapons, parse_units, parse_buildings)
ignored_categories(k) ==
    CASE k = 1 -> {}
      [] k = 2 -> {"Weapons", "Units", "Buildings"}
      [] k = 3 -> {"Units", "Buildings"}
      [] k = 4 -> {"Buildings"}
      [] OTHER -> {}

\* a faulty test: every record that still has placeholders is promoted
exempt_always(h, obj, ignored) == TRUE

\* a faulty test: no record that still has placeholders is promoted
exempt_never(h, obj, ignored) == FALSE

\* a faulty test: one placeholder of an ignored category is enough
exempt_some(h, obj, ignored) ==
    /\ ignored # {}
    /\ \E e \in unresolved_refs(h, obj) : Category(e.ref.path) \in ignored

\* the test that promotes a record which still has placeholders
exempt(h, obj, ignored) ==
    /\ ignored # {}
    /\ \A e \in unresolved_refs(h, obj) : Category(e.ref.path) \in ignored

\* a faulty loop: the record is popped from the left end of the worklist
dereference_iter_pop_left(h, res, stk, ignored) ==
    Let(Head(stk), LAMBDA obj :
    Let(Tail(stk), LAMBDA rest :
    Let(Dereferencer(h, obj, res), LAMBDA d :
      IF ~d.ok
      THEN [status |-> "raised", heap |-> d.heap, resolved |-> res, stack |-> rest]
      ELSE IF is_resolved(d.heap, obj)
      THEN IF IsWrapper(d.heap, obj)
           THEN Let(NewObj(d.heap, to_upgrade(d.heap, obj)), LAMBDA u :
                  [status |-> "ok", heap |-> u.heap,
                   resolved |-> DictSet(res, RecordKey(d.heap, d.heap[obj].fs.upgrade.id),
                                        u.id),
                   stack |-> rest])
           ELSE [status |-> "ok", heap |-> d.heap,
                 resolved |-> DictSet(res, RecordKey(d.heap, obj), obj), stack |-> rest]
      ELSE IF exempt(d.heap, obj, ignored)
      THEN IF IsWrapper(d.heap, obj)
           THEN [status |-> "raised", heap |-> d.heap, resolved |-> res, stack |-> rest]
           ELSE [status |-> "ok", heap |-> d.heap,
                 resolved |-> DictSet(res, RecordKey(d.heap, obj), obj), stack |-> rest]
      ELSE [status |-> "ok", heap |-> d.heap, resolved |-> res,
            stack |-> <<obj>> \o rest])))

\* a faulty loop: is_resolved and the exemption are tested on the record as it
\* was before the pass
dereference_iter_stale_test(h, res, stk, ignored) ==
    Let(Last(stk), LAMBDA obj :
    Let(Front(stk), LAMBDA rest :
    Let(Dereferencer(h, obj, res), LAMBDA d :
      IF ~d.ok
      THEN [status |-> "raised", heap |-> d.heap, resolved |-> res, stack |-> rest]
      ELSE IF is_resolved(h, obj)
      THEN IF IsWrapper(d.heap, obj)
           THEN Let(NewObj(d.heap, to_upgrade(d.heap, obj)), LAMBDA u :
                  [status |-> "ok", heap |-> u.heap,
                   resolved |-> DictSet(res, RecordKey(d.heap, d.heap[obj].fs.upgrade.id),
                                        u.id),
                   stack |-> rest])
           ELSE [status |-> "ok", heap |-> d.heap,
                 resolved |-> DictSet(res, RecordKey(d.heap, obj), obj), stack |-> rest]
      ELSE IF exempt(h, obj, ignored)
      THEN IF IsWrapper(d.heap, obj)
           THEN [status |-> "raised", heap |-> d.heap, resolved |-> res, stack |-> rest]
           ELSE [status |-> "ok", heap |-> d.heap,
                 resolved |-> DictSet(res, RecordKey(d.heap, obj), obj), stack |-> rest]
      ELSE [status |-> "ok", heap |-> d.heap, resolved |-> res,
            stack |-> <<obj>> \o rest])))

\* One iteration of the while loop of dereference: pop from the right, run a
\* Dereferencer pass, then promote the record or put it back on the left.
\* status is "raised" when the iteration ends in an exception.
dereference_iter(h, res, stk, ignored) ==
    Let(Last(stk), LAMBDA obj :
    Let(Front(stk), LAMBDA rest :
    Let(Dereferencer(h, obj, res), LAMBDA d :
      IF ~d.ok
      THEN [status |-> "raised", heap |-> d.heap, resolved |-> res, stack |-> rest]
      ELSE IF is_resolved(d.heap, obj)
      THEN IF IsWrapper(d.heap, obj)
           THEN Let(NewObj(d.heap, to_upgrade(d.heap, obj)), LAMBDA u :
                  [status |-> "ok", heap |-> u.heap,
                   resolved |-> DictSet(res, RecordKey(d.heap, d.heap[obj].fs.upgrade.id),
                                        u.id),
                   stack |-> rest])
           ELSE [status |-> "ok", heap |-> d.heap,
                 resolved |-> DictSet(res, RecordKey(d.heap, obj), obj), stack |-> rest]
      ELSE IF exempt(d.heap, obj, ignored)
      THEN IF IsWrapper(d.heap, obj)
           THEN [status |-> "raised", heap |-> d.heap, resolved |-> res, stack |-> rest]
           ELSE [status |-> "ok", heap |-> d.heap,
                 resolved |-> DictSet(res, RecordKey(d.heap, obj), obj), stack |-> rest]
      ELSE [status |-> "ok", heap |-> d.heap, resolved |-> res,
            stack |-> <<obj>> \o rest])))

\* a faulty return: records that still have placeholders are left out
dereference_return_resolved_only(h, res) ==
    Let(SelectSeq(DictValues(res), LAMBDA v : is_resolved(h, v)), LAMBDA vals :
      <<sort_by_str(h, SelectSeq(vals, LAMBDA v : h[v].cls = "Upgrade")),
        sort_by_str(h, SelectSeq(vals, LAMBDA v : h[v].cls = "Trait")),
        sort_by_str(h, SelectSeq(vals, LAMBDA v : h[v].cls = "Weapon")),
        sort_by_str(h, SelectSeq(vals, LAMBDA v : h[v].cls = "Unit")),
        sort_by_str(h, SelectSeq(vals, LAMBDA v :
                          h[v].cls \notin {"Upgrade", "Trait", "Weapon", "Unit"}))>>)

\* the tail of dereference: resolved.values() split by isinstance (anything
\* that is no Upgrade, Trait, Weapon or Unit is taken for a Building), each
\* list sorted by str
dereference_return(h, res) ==
    Let(DictValues(res), LAMBDA vals :
      <<sort_by_str(h, SelectSeq(vals, LAMBDA v : h[v].cls = "Upgrade")),
        sort_by_str(h, SelectSeq(vals, LAMBDA v : h[v].cls = "Trait")),
        sort_by_str(h, SelectSeq(vals, LAMBDA v : h[v].cls = "Weapon")),
        sort_by_str(h, SelectSeq(vals, LAMBDA v : h[v].cls = "Unit")),
        sort_by_str(h, SelectSeq(vals, LAMBDA v :
                          h[v].cls \notin {"Upgrade", "Trait", "Weapon", "Unit"}))>>)

-----------------------------------------------------------------------------
(* Producer linking (data.py, parse.py) *)

\* value.category_path, as str, of an Origin or of a record
ValueKey(h, v) == IF v.t = "obj" THEN RecordKey(h, v.id) ELSE CategoryPath(v.path)

\* bool(value) of a parameter value or reference
Truthy(v) == v.t \in {"obj", "origin"}

\* the values of the parameters of `action` whose type is `type`
ParamValues(h, action, type) ==
    Let(SelectSeq(h[action].fs.params.items, LAMBDA p : h[p.id].fs.type.v = type),
        LAMBDA ps : [i \in 1..Len(ps) |-> h[ps[i].id].fs.value])

\* the action names of the model for which name.startswith("deploy") holds
DeployNames == {"deployUnit"}

\* Action.produced_unit
produced_unit(h, action) ==
    Let(h[action].fs, LAMBDA a :
    Let(ParamValues(h, action, "unit"), LAMBDA units :
    Let(ParamValues(h, action, "unitType"), LAMBDA types :
      IF a.name.v = "produceUnit" /\ units # <<>> THEN units[1]
      ELSE IF a.name.v \in DeployNames /\ types # <<>> THEN types[1]
      ELSE IF /\ Truthy(a.reference)
              /\ Category(IF a.reference.t = "obj" THEN PathOf(h, a.reference.id)
                          ELSE a.reference.path) = "Units"
              /\ Let(ValueKey(h, a.reference), LAMBDA key :
                     \A i \in 1..Len(key) : key[i] # "Artefacts")
           THEN a.reference
      ELSE None)))

\* Building.produced_units
RECURSIVE produced_units_of(_, _)
produced_units_of(h, actions) ==
    IF actions = <<>> THEN <<>>
    ELSE (IF h[actions[1].id].fs.name.v = "produceUnit"
          THEN ParamValues(h, actions[1].id, "unit") ELSE <<>>)
         \o produced_units_of(h, Tail(actions))

produced_units(h, building) == produced_units_of(h, h[building].fs.actions.items)

\* the first loop of resolve_producers: produced unit -> building
RECURSIVE building_context(_, _)
building_context(h, buildings) ==
    IF buildings = <<>> THEN <<>>
    ELSE LET RECURSIVE put(_, _)
             put(d, pus) ==
                 IF pus = <<>> THEN d
                 ELSE put(DictSet(d, ValueKey(h, pus[1]), Last(buildings)), Tail(pus))
         IN put(building_context(h, Front(buildings)), produced_units(h, Last(buildings)))

\* the third loop: produced unit -> producing unit
RECURSIVE unit_context(_, _)
unit_context(h, units) ==
    IF units = <<>> THEN <<>>
    ELSE LET RECURSIVE put(_, _)
             put(d, actions) ==
                 IF actions = <<>> THEN d
                 ELSE Let(produced_unit(h, actions[1].id), LAMBDA pu :
                        put(IF Truthy(pu) THEN DictSet(d, ValueKey(h, pu), Last(units))
                            ELSE d,
                            Tail(actions)))
         IN put(unit_context(h, Front(units)), h[Last(units)].fs.actions.items)

\* the second and fourth loop: a with_producer copy of every unit found in
\* `context`, the unit itself otherwise
RECURSIVE link_producers(_, _, _)
link_producers(h, context, units) ==
    IF units = <<>> THEN [heap |-> h, items |-> <<>>]
    ELSE Let(RecordKey(h, units[1]), LAMBDA key :
         Let(IF DictHas(context, key)
             THEN NewObj(h, with_producer(h, units[1], Obj(DictGet(context, key))))
             ELSE [heap |-> h, id |-> units[1]],
             LAMBDA one :
               Let(link_producers(one.heap, context, Tail(units)), LAMBDA rest :
                 [heap |-> rest.heap, items |-> <<one.id>> \o rest.items])))

\* a faulty resolve_producers: the units are linked first and the buildings
\* last, so that a producing building replaces a producing unit
resolve_producers_buildings_last(h, units, buildings) ==
    Let(link_producers(h, unit_context(h, units), units), LAMBDA with_units :
      link_producers(with_units.heap, building_context(with_units.heap, buildings),
                     with_units.items))

\* resolve_producers(units, buildings)
resolve_producers(h, units, buildings) ==
    Let(link_producers(h, building_context(h, buildings), units), LAMBDA with_buildings :
      link_producers(with_buildings.heap,
                     unit_context(with_buildings.heap, with_buildings.items),
                     with_buildings.items))

-----------------------------------------------------------------------------
(* The XML corpus: the files under xml/World that the parsers may find *)

\* the number of cross-references in the whole corpus is at most MaxRefs
MaxRefs == 2

Ref(kind, parts) == [kind |-> kind, to |-> MkPath(parts, "")]

KeyTA == <<"Traits", "TA">>
KeyTQ == <<"Traits", "Tau", "TargetAcquired">>
KeyWA == <<"Weapons", "WA">>
KeyNA == <<"Units", "Tau", "NA">>
KeyBA == <<"Buildings", "Tau", "BA">>
KeyUA == <<"Upgrades", "Tau", "A">>
KeyUB == <<"Upgrades", "Tau", "B">>

File(cls, parts) == MkPath(<<"xml", "World">> \o parts, ".xml")

\* what each stage may find: per file its class, its path, the references it
\* may hold, in document order, and the <traits> and <weapons> lists it may
\* have
Stubs(k) ==
    CASE k = 1 ->
           LET reqs == <<Ref("req", KeyUA), Ref("req", KeyUB),
                         Ref("req", <<"Upgrades", "Tau", "Z">>)>>
           IN <<[cls |-> "Upgrade", path |-> File("Upgrade", KeyUA), refs |-> reqs,
                 traits |-> {<<>>}, weapons |-> {<<>>}],
                [cls |-> "Upgrade", path |-> File("Upgrade", KeyUB), refs |-> reqs,
                 traits |-> {<<>>}, weapons |-> {<<>>}]>>
      [] k = 2 ->
           LET refs == <<Ref("param", KeyTA), Ref("param", KeyTQ),
                         Ref("param", KeyWA), Ref("param", <<"Weapons", "WZ">>),
                         Ref("slots", KeyWA), Ref("param", KeyNA),
                         Ref("param", <<"Actions", "Act">>)>>
           IN <<[cls |-> "Trait", path |-> File("Trait", KeyTA), refs |-> refs,
                 traits |-> {<<>>}, weapons |-> {<<>>}],
                [cls |-> "Trait", path |-> File("Trait", KeyTQ), refs |-> refs,
                 traits |-> {<<>>}, weapons |-> {<<>>}]>>
      [] k = 3 ->
           <<[cls |-> "Weapon", path |-> File("Weapon", KeyWA),
              refs |-> <<Ref("param", KeyWA), Ref("param", KeyNA), Ref("target", KeyNA),
                         [kind |-> "icon", to |-> MkPath(KeyNA, ".png")],
                         Ref("plain", <<"bogusAttr">>)>>,
              traits |-> {<<>>, <<[name |-> KeyTQ, upgrade |-> <<>>]>>,
                          <<[name |-> KeyTA, upgrade |-> KeyUA]>>},
              weapons |-> {<<>>}]>>
      [] k = 4 ->
           <<[cls |-> "Unit", path |-> File("Unit", KeyNA),
              refs |-> <<Ref("param", KeyNA), Ref("param", KeyBA)>>,
              traits |-> {<<>>, <<[name |-> KeyTQ, upgrade |-> <<>>]>>},
              weapons |-> {<<>>, <<KeyWA>>}]>>
      [] OTHER ->
           <<[cls |-> "Building", path |-> File("Building", KeyBA),
              refs |-> <<Ref("param", KeyBA), Ref("produce", KeyNA)>>,
              traits |-> {<<>>}, weapons |-> {<<>>}]>>

\* the members of s at the positions I from position n on, in the order of s
RECURSIVE Pick(_, _, _)
Pick(s, I, n) ==
    IF n > Len(s) THEN <<>>
    ELSE (IF n \in I THEN <<s[n]>> ELSE <<>>) \o Pick(s, I, n + 1)

\* a file holds each of its references at most once and in document order:
\* the selections of at most b members of s
SeqsUpTo(s, b) ==
    {Pick(s, I, 1) : I \in {J \in SUBSET (1..Len(s)) : Cardinality(J) <= b}}

\* the contents one file may have with at most b references
FileChoices(stub, b) ==
    {[cls |-> stub.cls, path |-> stub.path, refs |-> r, traits |-> t, weapons |-> w] :
       r \in SeqsUpTo(stub.refs, b), t \in stub.traits, w \in stub.weapons}

RECURSIVE FilesFrom(_, _)
FilesFrom(stubs, b) ==
    IF stubs = <<>> THEN {<<>>}
    ELSE UNION {{<<f>> \o rest : rest \in FilesFrom(Tail(stubs), b - Len(f.refs))} :
                  f \in FileChoices(stubs[1], b)}

Perms(n) == {p \in [1..n -> 1..n] : \A i, j \in 1..n : p[i] = p[j] => i = j}

\* the orders in which stage k may list its n files: iterdir yields them in
\* any order, and parse_traits takes the files of the directory itself
\* (Traits/TA.xml) before those of its subdirectories
Listings(k, n) == IF k = 2 THEN {[i \in 1..n |-> i]} ELSE Perms(n)

\* the files of stage k in the order the directory listing yields them
Corpus(k, b) ==
    {[i \in 1..Len(fs) |-> fs[p[i]]] : fs \in FilesFrom(Stubs(k), b),
                                        p \in Listings(k, Len(Stubs(k)))}

\* the cross-references the parsers have read so far
RefCount(h) ==
    Cardinality({i \in 1..Len(h) : h[i].cls = "Parameter"})
    + Cardinality({ij \in (1..Len(h)) \X (1..MaxRefs) :
                     /\ h[ij[1]].cls = "UpgradeWrapper"
                     /\ ij[2] <= Len(h[ij[1]].fs.required_upgrades.items)})

-----------------------------------------------------------------------------
(* parse_all *)

Reverse(s) == [i \in 1..Len(s) |-> s[Len(s) + 1 - i]]

NoLists == <<<<>>, <<>>, <<>>, <<>>, <<>>>>

\* no construction is run on its own
NoCall == [cls |-> "", path |-> MkPath(<<>>, ""), tier |-> None, type |-> ""]

Init ==
    /\ heap = <<>>
    /\ stage = 1
    /\ pc = "parse"
    /\ resolved = <<>>
    /\ stack = <<>>
    /\ batch = <<>>
    /\ ret = NoLists
    /\ out = NoLists
    /\ call = NoCall

\* parse_xxx up to the call of dereference: the parser context is built
\* from the lists of the earlier stages, the files are parsed (a construction
\* that raises ends parse_all with nothing kept), get_context
\* splits the earlier lists and the new records, and dereference reverses
\* `unresolved` into its deque
Parse(k) ==
    /\ pc = "parse"
    /\ stage = k
    /\ \E files \in Corpus(k, MaxRefs - RefCount(heap)) :
       \E parsed \in {parse_files(heap,
                                  context_of(heap, out[1] \o out[2] \o out[3] \o out[4] \o out[5]),
                                  files)} :
       \E bad \in {FirstRaising(parsed.heap, Len(heap))} :
       \E lists \in {[out EXCEPT ![k] = parsed.items]} :
       \E gc \in {get_context(parsed.heap, lists[1], lists[2], lists[3], lists[4], lists[5])} :
         IF bad # 0
         THEN /\ pc' = "raised"
              /\ call' = CallOf(parsed.heap[bad])
              /\ UNCHANGED <<heap, batch, resolved, stack>>
         ELSE /\ heap' = parsed.heap
              /\ batch' = lists[1] \o lists[2] \o lists[3] \o lists[4] \o lists[5]
              /\ resolved' = gc.resolved
              /\ stack' = Reverse(gc.unresolved)
              /\ pc' = IF gc.ok THEN "loop" ELSE "raised"
              /\ call' = call
    /\ UNCHANGED <<stage, ret, out>>

ParseUpgrades == Parse(1)
ParseTraits == Parse(2)
ParseWeapons == Parse(3)
ParseUnits == Parse(4)
ParseBuildings == Parse(5)

\* one iteration of the while loop of dereference
DerefStep ==
    /\ pc = "loop"
    /\ stack # <<>>
    /\ \E r \in {dereference_iter(heap, resolved, stack, ignored_categories(stage))} :
          /\ heap' = r.heap
          /\ resolved' = r.resolved
          /\ stack' = r.stack
          /\ pc' = IF r.status = "ok" THEN "loop" ELSE "raised"
    /\ UNCHANGED <<stage, batch, ret, out, call>>

\* a faulty loop: dereference returns while records are still on the worklist
DerefReturn_early ==
    /\ pc = "loop"
    /\ ret' = dereference_return(heap, resolved)
    /\ out' = [out EXCEPT ![stage] = ret'[stage]]
    /\ stage' = stage + 1
    /\ pc' = IF stage < 5 THEN "parse" ELSE "producers"
    /\ UNCHANGED <<heap, resolved, stack, batch, call>>

\* the loop has ended: dereference returns its five lists and parse_xxx
\* keeps the list of its own category
DerefReturn ==
    /\ pc = "loop"
    /\ stack = <<>>
    /\ ret' = dereference_return(heap, resolved)
    /\ out' = [out EXCEPT ![stage] = ret'[stage]]
    /\ stage' = stage + 1
    /\ pc' = IF stage < 5 THEN "parse" ELSE "producers"
    /\ UNCHANGED <<heap, resolved, stack, batch, call>>

\* units = resolve_producers(units, buildings), then parse_all returns
ResolveProducers ==
    /\ pc = "producers"
    /\ \E r \in {resolve_producers(heap, out[4], out[5])} :
          /\ heap' = r.heap
          /\ out' = [out EXCEPT ![4] = r.items]
    /\ pc' = "done"
    /\ UNCHANGED <<stage, resolved, stack, batch, ret, call>>

Next ==
    \/ ParseUpgrades
    \/ ParseTraits
    \/ ParseWeapons
    \/ ParseUnits
    \/ ParseBuildings
    \/ DerefStep
    \/ DerefReturn
    \/ ResolveProducers

Spec == Init /\ [][Next]_vars

\* the interpreter runs the program on: it takes a step whenever one exists
FairSpec == Spec /\ WF_vars(Next)

-----------------------------------------------------------------------------
(* Construction on its own *)

\* The constructors of the record classes and of Parameter run on their
\* own: a construction is drawn, and the one step either stores the new
\* object or ends in the exception __post_init__ raises.

\* the paths a record is constructed with
CtorPaths ==
    {File("Upgrade", KeyUA), File("Trait", KeyTA), File("Trait", KeyTQ),
     File("Weapon", KeyWA), File("Unit", KeyNA), File("Building", KeyBA),
     File("Building", <<"Buildings", "Units", "NA">>),
     File("Unit", <<"Units", "Buildings", "BA">>),
     File("Trait", <<"Traits", "Items", "TA">>),
     File("Trait", <<"Traits", "Traits">>),
     File("Unit", <<"Units", "Neutral", "Artefacts", "Damage">>),
     File("Action", <<"Actions", "Act">>),
     File("Sound", <<"Sounds", "A">>)}

\* the tiers an Upgrade is constructed with
CtorTiers == {None, Scalar(0), Scalar(1), Scalar(10), Scalar(11)}

\* the type names a Parameter is constructed with
CtorTypes == {"name", "weapon", "unit", "weaponSlotNames", "count", "reference",
              "bogusAttr", "icon", "Name", ""}

CtorCalls ==
    {[cls |-> c, path |-> p, tier |-> t, type |-> ""] :
        c \in {"Upgrade"}, p \in CtorPaths, t \in CtorTiers}
    \cup {[cls |-> c, path |-> p, tier |-> None, type |-> ""] :
            c \in RecordClasses \ {"Upgrade"}, p \in CtorPaths}
    \cup {[cls |-> "Parameter", path |-> MkPath(<<>>, ""), tier |-> None, type |-> t] :
            t \in CtorTypes}

\* the object the construction `c` stores when __post_init__ raises nothing
Constructed(c) ==
    Let(IF c.path.parts = <<>> THEN "" ELSE Last(c.path.parts), LAMBDA name :
      CASE c.cls = "Parameter" -> Parameter(c.type, Scalar("1"))
        [] c.cls = "Upgrade" -> Upgrade(c.path, name, None, c.tier, None, <<>>)
        [] c.cls = "Trait" -> Trait(c.path, name, None, Tuple(<<>>), None)
        [] c.cls = "Weapon" -> Weapon(c.path, name, None, Tuple(<<>>), None, Tuple(<<>>),
                                      None, None, None)
        [] c.cls = "Unit" -> Unit(c.path, name, None, Tuple(<<>>), Tuple(<<>>), Tuple(<<>>),
                                  Tuple(<<>>), None, None)
        [] OTHER -> Building(c.path, name, Tuple(<<>>), Tuple(<<>>), Tuple(<<>>), None))

CtorInit ==
    /\ heap = <<>>
    /\ stage = 0
    /\ pc = "construct"
    /\ resolved = <<>>
    /\ stack = <<>>
    /\ batch = <<>>
    /\ ret = NoLists
    /\ out = NoLists
    /\ call \in CtorCalls

\* the construction of a record: Xxx(path, ...)
ConstructRecord ==
    /\ pc = "construct"
    /\ call.cls \in RecordClasses
    /\ IF post_init(call)
       THEN heap' = Append(heap, Constructed(call)) /\ pc' = "constructed"
       ELSE heap' = heap /\ pc' = "raised"
    /\ UNCHANGED <<stage, resolved, stack, batch, ret, out, call>>

\* the construction of a parameter: Parameter(type, value)
ConstructParameter ==
    /\ pc = "construct"
    /\ call.cls = "Parameter"
    /\ IF post_init(call)
       THEN heap' = Append(heap, Constructed(call)) /\ pc' = "constructed"
       ELSE heap' = heap /\ pc' = "raised"
    /\ UNCHANGED <<stage, resolved, stack, batch, ret, out, call>>

CtorNext == ConstructRecord \/ ConstructParameter

CtorSpec == CtorInit /\ [][CtorNext]_vars

-----------------------------------------------------------------------------
(* Vocabulary of the properties *)

Range(s) == {s[i] : i \in 1..Len(s)}

\* the objects a field value holds directly
Held(v) ==
    IF v.t = "obj" THEN {v.id}
    ELSE IF v.t \in {"tuple", "list"}
    THEN {v.items[i].id : i \in {j \in 1..Len(v.items) : v.items[j].t = "obj"}}
    ELSE {}

\* the objects reachable from those of `todo` through any field without
\* entering another record: the Modifiers, Effects, Parameters, Targets and
\* Actions, and the wrapper's list, that make up a record
RECURSIVE OwnedFrom(_, _, _)
OwnedFrom(h, seen, todo) ==
    IF todo = {} THEN seen
    ELSE OwnedFrom(h, seen \cup todo,
                   {x \in UNION {UNION {Held(h[i].fs[f]) : f \in DOMAIN h[i].fs} : i \in todo} :
                      h[x].cls \notin RecordClasses} \ (seen \cup todo))

\* the record r with everything that makes it up
Inside(h, r) == OwnedFrom(h, {}, {r})

\* the objects the walk of collect_unresolved_refs visits from those of
\* `todo`: the dataclass instances held in tuple and list fields
RECURSIVE WalkedFrom(_, _, _)
WalkedFrom(h, seen, todo) ==
    IF todo = {} THEN seen
    ELSE WalkedFrom(h, seen \cup todo,
                    UNION {UNION {IF h[i].fs[f].t \in {"tuple", "list"}
                                  THEN Held(h[i].fs[f]) ELSE {} :
                                  f \in (DOMAIN h[i].fs) \ {"reference"}} : i \in todo}
                      \ (seen \cup todo))

Walked(h, r) == WalkedFrom(h, {}, {r})

\* some field inside record r differs between the heaps h and h2
Mutated(h, h2, r) == \E x \in Inside(h, r) : h2[x] # h[x]

\* the identity path of a worklist item: an UpgradeWrapper has that of the
\* upgrade it wraps
IdentityPath(h, r) == IF IsWrapper(h, r) THEN PathOf(h, h[r].fs.upgrade.id) ELSE PathOf(h, r)

\* the while loop of dereference run to its end from (h, res, stk).  The loop
\* is deterministic, so it never ends once every item of the worklist has
\* been passed and put back in a row with nothing changed ("diverges").
RECURSIVE RunLoop(_, _, _, _, _)
RunLoop(h, res, stk, ignored, idle) ==
    IF stk = <<>> THEN [status |-> "returned", heap |-> h, resolved |-> res]
    ELSE IF idle >= Len(stk) THEN [status |-> "diverges", heap |-> h, resolved |-> res]
    ELSE Let(dereference_iter(h, res, stk, ignored), LAMBDA r :
           IF r.status = "raised"
           THEN [status |-> "raised", heap |-> r.heap, resolved |-> r.resolved]
           ELSE RunLoop(r.heap, r.resolved, r.stack, ignored,
                        IF r.heap = h /\ r.resolved = res THEN idle + 1 ELSE 0))

\* a value unfolded, so that two results can be compared whatever the
\* addresses of their objects are: the objects held in tuples and lists are
\* unfolded in turn, a record that a single field links to is given by its
\* class and path
RECURSIVE Unfold(_, _, _)
Unfold(h, v, single) ==
    IF v.t = "obj"
    THEN IF single /\ h[v.id].cls \in RecordClasses
         THEN [t |-> "link", cls |-> h[v.id].cls, path |-> PathOf(h, v.id)]
         ELSE [t |-> "obj", cls |-> h[v.id].cls,
               fs |-> [f \in DOMAIN h[v.id].fs |-> Unfold(h, h[v.id].fs[f], TRUE)]]
    ELSE IF v.t \in {"tuple", "list"}
    THEN [t |-> v.t, items |-> [i \in 1..Len(v.items) |-> Unfold(h, v.items[i], FALSE)]]
    ELSE v

\* what dereference returns after a finished loop, unfolded
Result(run) ==
    Let(dereference_return(run.heap, run.resolved), LAMBDA lists :
      [k \in 1..5 |-> [i \in 1..Len(lists[k]) |-> Unfold(run.heap, Obj(lists[k][i]), FALSE)]])

\* dereference has returned: ret and resolved are those of the latest call,
\* whose stage was stage - 1
Returned == pc \in {"parse", "producers", "done"} /\ stage > 1

AllRet == UNION {Range(ret[k]) : k \in 1..5}

Kind(k) == <<"Upgrade", "Trait", "Weapon", "Unit", "Building">>[k]

\* a Parameter inside record r links to a record of class c
LinksTo(h, r, c) ==
    \E x \in Inside(h, r) :
       /\ h[x].cls = "Parameter"
       /\ h[x].fs.value.t = "obj"
       /\ h[h[x].fs.value.id].cls = c

-----------------------------------------------------------------------------
(* Properties *)

\* C2: when the dereference call of the Buildings stage (no ignored
\* categories) has returned, every record of every returned list has an
\* empty placeholder set.
C2_FinalStageResolved ==
    pc \in {"producers", "done"} => \A r \in AllRet : unresolved_refs(heap, r) = {}

\* C2 witness: the Buildings stage has returned a unit that came in with a
\* reference to a building and now links to it
C2_Witness == pc = "producers" /\ \E r \in Range(ret[4]) : LinksTo(heap, r, "Building")

C5_Idempotent ==
    (Returned /\ \A r \in AllRet : is_resolved(heap, r)) =>
       Let(get_context(heap, ret[1], ret[2], ret[3], ret[4], ret[5]), LAMBDA gc :
         /\ gc.ok
         /\ Let(RunLoop(heap, gc.resolved, Reverse(gc.unresolved),
                        ignored_categories(stage - 1), 0),
                LAMBDA again :
                  /\ again.status = "returned"
                  /\ again.heap = heap
                  /\ dereference_return(again.heap, again.resolved) = ret))

\* C5 witness: the Upgrades stage has returned two upgrades, one of which
\* links to a required upgrade, and no placeholder is left
C5_Witness ==
    /\ pc = "parse" /\ stage = 2 /\ Len(ret[1]) = 2
    /\ \A r \in AllRet : is_resolved(heap, r)
    /\ \E r \in Range(ret[1]) : \E i \in 1..Len(heap[r].fs.required_upgrades.items) :
          heap[r].fs.required_upgrades.items[i].t = "obj"

\* C6: no step changes the path of an object, and the record promoted for a
\* worklist item (for an UpgradeWrapper, the Upgrade made of it) has the
\* identity path of that item.
C6_PathKept ==
    [][/\ \A i \in 1..Len(heap) :
            "path" \in DOMAIN heap[i].fs => heap'[i].fs.path = heap[i].fs.path
       /\ (pc = "loop" /\ stack # <<>> /\ Len(resolved') > Len(resolved)) =>
            PathOf(heap', resolved'[Len(resolved')].id) = IdentityPath(heap, Last(stack))]_vars

\* C6 witness: an UpgradeWrapper has been promoted as an Upgrade that links
\* to a required upgrade
C6_Witness ==
    /\ stage = 1
    /\ \E i \in 1..Len(resolved) : \E j \in 1..Len(resolved) :
          Obj(resolved[j].id) \in Range(heap[resolved[i].id].fs.required_upgrades.items)

\* C7: in the loop of one dereference call every key of the context stays,
\* with the same record under it, and no pass mutates a record of the
\* context.
C7_AppendOnly ==
    [][(pc = "loop" /\ stack # <<>>) =>
         \A i \in 1..Len(resolved) :
            /\ DictHas(resolved', resolved[i].key)
            /\ DictGet(resolved', resolved[i].key) = resolved[i].id
            /\ ~Mutated(heap, heap', resolved[i].id)]_vars

\* C7 witness: in the loop of the Weapons stage, with two entries or more in
\* the context, a pass has linked a trait to a weapon of the context
C7_Witness ==
    /\ pc = "loop" /\ stage = 3 /\ Len(resolved) >= 2
    /\ \E i \in 1..Len(resolved) :
          heap[resolved[i].id].cls = "Trait" /\ LinksTo(heap, resolved[i].id, "Weapon")

\* C8: when dereference has returned, its five lists hold exactly the
\* entries of the context, each in the list of its kind, no two of a list
\* with the same path, each list in ascending order of str(path).
C8_Lists ==
    Returned =>
       /\ Len(ret[1]) + Len(ret[2]) + Len(ret[3]) + Len(ret[4]) + Len(ret[5]) = Len(resolved)
       /\ AllRet = Range(DictValues(resolved))
       /\ \A k \in 1..5 : \A r \in Range(ret[k]) : heap[r].cls = Kind(k)
       /\ \A k \in 1..5 : \A i \in 1..Len(ret[k]) : \A j \in (i + 1)..Len(ret[k]) :
             /\ PathOf(heap, ret[k][i]) # PathOf(heap, ret[k][j])
             /\ StrLess(RecordStr(heap, ret[k][i]), RecordStr(heap, ret[k][j]))

\* C8 witness: a returned list of two records whose order differs from the
\* order of their promotion
C8_Witness ==
    /\ Returned
    /\ \E k \in 1..5 : \E i \in 1..Len(resolved) : \E j \in (i + 1)..Len(resolved) :
          Len(ret[k]) = 2 /\ ret[k][1] = resolved[j].id /\ ret[k][2] = resolved[i].id

\* C9: a pass over a record whose placeholders all have no entry in the
\* context raises no exception; and when dereference returns, every record
\* it was given is in the returned lists (an UpgradeWrapper as its Upgrade),
\* also a record that still holds a placeholder, and a placeholder still
\* held is one the loop could not resolve: the context has no entry for it.
C9_Emitted ==
    [][/\ (/\ pc = "loop" /\ stack # <<>>
           /\ \A e \in unresolved_refs(heap, Last(stack)) :
                 ~DictHas(resolved, OriginStr(e.ref.path)))
          => pc' = "loop"
       /\ (pc = "loop" /\ stack = <<>> /\ pc' # "loop") =>
            \A r \in Range(batch) :
               /\ IF IsWrapper(heap', r)
                  THEN \E e \in Range(ret'[1]) : PathOf(heap', e) = IdentityPath(heap', r)
                  ELSE \E k \in 1..5 : r \in Range(ret'[k])
               /\ \A e \in unresolved_refs(heap', r) :
                     ~DictHas(resolved', OriginStr(e.ref.path))]_vars

\* C9 witness: a returned record that still holds a placeholder
C9_Witness == Returned /\ \E r \in AllRet : unresolved_refs(heap, r) # {}

\* C10: the stage number only goes up, by one, and only when the worklist of
\* the stage is empty; the files of a stage are parsed and its context is
\* built with an empty worklist behind and before any later stage has
\* returned, the context and the worklist of the stage hold every record
\* the earlier stages returned, and producer linking comes after stage five.
C10_StageOrder ==
    [][/\ stage' \in {stage, stage + 1}
       /\ stage' = stage + 1 => pc = "loop" /\ stack = <<>>
       /\ (pc = "parse" /\ pc' # "parse") =>
            /\ stack = <<>>
            /\ \A k \in stage..5 : out[k] = <<>>
            /\ \A k \in 1..(stage - 1) : \A r \in Range(out[k]) :
                  r \in Range(DictValues(resolved')) \cup Range(stack')
       /\ pc' = "producers" => stage' = 6
       /\ pc' = "done" => pc \in {"producers", "done"}]_vars

\* C10 witness: the Units stage is in its loop with an upgrade, a trait and
\* a weapon of the earlier stages in its context
C10_Witness ==
    /\ pc = "loop" /\ stage = 4
    /\ \A c \in {"Upgrade", "Trait", "Weapon"} :
          \E i \in 1..Len(resolved) : heap[resolved[i].id].cls = c

\* the records of B that record r waits for: those an eligible placeholder
\* of r names
Awaited(h, B, r) ==
    {s \in B : \E e \in unresolved_refs(h, r) :
                  OriginStr(e.ref.path) = CategoryPath(IdentityPath(h, s))}

RECURSIVE AwaitedFrom(_, _, _, _)
AwaitedFrom(h, B, seen, todo) ==
    IF todo = {} THEN seen
    ELSE AwaitedFrom(h, B, seen \cup todo,
                     UNION {Awaited(h, B, s) : s \in todo} \ (seen \cup todo))

\* no record of B waits for itself, directly or through others: the
\* references that are left out as allowlisted form no placeholder, so every
\* cycle of references there is passes through the allowlist
OnlyAllowlistedCycles(h, B) ==
    \A r \in B : r \notin AwaitedFrom(h, B, {}, Awaited(h, B, r))

\* C1 as stated: on a batch whose cycles of references all pass through the
\* allowlist the loop of dereference ends with an empty worklist (it neither
\* raises nor goes on for ever), and a returned record has no placeholder
\* but of an ignored category.
C1_Convergence ==
    /\ (pc \in {"loop", "raised"} /\ OnlyAllowlistedCycles(heap, Range(batch))) =>
          /\ pc = "loop"
          /\ RunLoop(heap, resolved, stack, ignored_categories(stage), 0).status = "returned"
    /\ Returned =>
          \A r \in AllRet : \A e \in unresolved_refs(heap, r) :
             Category(e.ref.path) \in ignored_categories(stage - 1)

\* the state in which dereference enters its loop: the context and the
\* worklist are the ones get_context has built from the batch
AtEntry ==
    /\ pc = "loop"
    /\ Let(get_context(heap,
                       SelectSeq(batch, LAMBDA r : heap[r].cls \in {"Upgrade", "UpgradeWrapper"}),
                       SelectSeq(batch, LAMBDA r : heap[r].cls \notin {"Upgrade", "UpgradeWrapper"}),
                       <<>>, <<>>, <<>>),
           LAMBDA gc : gc.ok /\ resolved = gc.resolved /\ stack = Reverse(gc.unresolved))

\* C4: for a batch of records of pairwise distinct identity paths on which
\* the loop ends, the loop ends for every order of the unresolved input
\* list and dereference returns the same lists: the same records in the
\* same order with the same links (a list of fewer than two records has one
\* order only).
C4_OrderIndependent ==
    (/\ Len(stack) >= 2
     /\ AtEntry
     /\ \A r, s \in Range(batch) :
           r # s => IdentityPath(heap, r) # IdentityPath(heap, s)) =>
      Let(RunLoop(heap, resolved, stack, ignored_categories(stage), 0), LAMBDA run :
        run.status = "returned"
        => \A p \in Perms(Len(stack)) :
             Let(RunLoop(heap, resolved, [i \in 1..Len(stack) |-> stack[p[i]]],
                         ignored_categories(stage), 0),
                 LAMBDA other : other.status = "returned" /\ Result(other) = Result(run)))

\* C4 witness: an unresolved input list of two records or more on which the
\* loop ends after a pass that has replaced a placeholder
C4_Witness ==
    /\ AtEntry /\ Len(stack) >= 2
    /\ \A r, s \in Range(batch) :
          r # s => IdentityPath(heap, r) # IdentityPath(heap, s)
    /\ Let(RunLoop(heap, resolved, stack, ignored_categories(stage), 0), LAMBDA run :
         run.status = "returned" /\ run.heap # heap)

\* C11: with the batch of Upgrade A (no prerequisite) and Upgrade B (its one
\* prerequisite a placeholder for A), get_context has put A into the context
\* and B (in its wrapper) on the worklist; the one pass of the loop then
\* empties the worklist, B is promoted with the very A of the context as its
\* prerequisite, and dereference would return the upgrades <<A, B>>, both
\* without placeholders.
C11_UpgradePair ==
    [][(stage = 1 /\ Len(batch) = 2 /\ AtEntry) => \A a, w \in Range(batch) :
         (/\ heap[a].cls = "Upgrade" /\ RecordKey(heap, a) = KeyUA
          /\ heap[a].fs.required_upgrades.items = <<>>
          /\ IsWrapper(heap, w) /\ RecordKey(heap, heap[w].fs.upgrade.id) = KeyUB
          /\ heap[w].fs.required_upgrades.items = <<OriginV(MkPath(KeyUA, ""))>>)
         => /\ resolved = <<[key |-> KeyUA, id |-> a]>>
            /\ stack = <<w>>
            /\ pc' = "loop" /\ stack' = <<>>
            /\ Len(resolved') = 2 /\ resolved'[1] = resolved[1]
            /\ resolved'[2].key = KeyUB
            /\ Let(resolved'[2].id, LAMBDA b :
                 /\ heap'[b].cls = "Upgrade"
                 /\ PathOf(heap', b) = IdentityPath(heap, w)
                 /\ heap'[b].fs.required_upgrades = Tuple(<<Obj(a)>>)
                 /\ heap'[a] = heap[a]
                 /\ is_resolved(heap', a) /\ is_resolved(heap', b)
                 /\ dereference_return(heap', resolved')
                       = <<<<a, b>>, <<>>, <<>>, <<>>, <<>>>>)]_vars

\* C11 witness: the Upgrades stage has returned <<A, B>> with A as the
\* prerequisite of B
C11_Witness ==
    /\ pc = "parse" /\ stage = 2 /\ Len(ret[1]) = 2
    /\ RecordKey(heap, ret[1][1]) = KeyUA /\ RecordKey(heap, ret[1][2]) = KeyUB
    /\ heap[ret[1][1]].fs.required_upgrades.items = <<>>
    /\ heap[ret[1][2]].fs.required_upgrades.items = <<Obj(ret[1][1])>>

\* C12: in the Traits stage, with the allowlisted trait X on the worklist
\* holding a placeholder for the weapon Y, and every placeholder of the
\* worklist of the category Weapons or Units, the loop ends (it neither
\* raises nor goes on for ever), X is in the returned list of traits and
\* holds the same placeholders as before, the one for Y among them.
C12_AllowlistedTrait ==
    (pc = "loop" /\ stage = 2) =>
      \A x \in Range(stack) :
        (/\ RecordKey(heap, x) \in CIRCULAR_REFS
         /\ \E e \in unresolved_refs(heap, x) : CategoryPath(e.ref.path) = KeyWA
         /\ \A r \in Range(stack) : \A e \in unresolved_refs(heap, r) :
               Category(e.ref.path) \in {"Weapons", "Units"})
        => Let(RunLoop(heap, resolved, stack, ignored_categories(stage), 0), LAMBDA run :
             /\ run.status = "returned"
             /\ x \in Range(dereference_return(run.heap, run.resolved)[2])
             /\ unresolved_refs(run.heap, x) = unresolved_refs(heap, x)
             /\ \E e \in unresolved_refs(run.heap, x) :
                   e.ref = OriginV(MkPath(KeyWA, "")))

\* C12 witness: the Traits stage has returned the allowlisted trait with its
\* placeholder for the weapon
C12_Witness ==
    /\ pc = "parse" /\ stage = 3
    /\ \E x \in Range(ret[2]) :
          /\ RecordKey(heap, x) \in CIRCULAR_REFS
          /\ \E e \in unresolved_refs(heap, x) : e.ref = OriginV(MkPath(KeyWA, ""))

\* C13: the construction of an Upgrade, a Trait, a Weapon or a Unit with a
\* path whose category is not Upgrades, Traits, Weapons or Units
\* respectively ends in the exception and stores no object; a construction
\* that has stored an object has stored one of the class asked for, with the
\* path given.
C13_CategoryChecked ==
    (pc \in {"constructed", "raised"} /\ call.cls \in {"Upgrade", "Trait", "Weapon", "Unit"}) =>
       /\ Category(call.path)
             # [Upgrade |-> "Upgrades", Trait |-> "Traits", Weapon |-> "Weapons",
                Unit |-> "Units"][call.cls]
          => pc = "raised" /\ heap = <<>>
       /\ pc = "constructed" =>
             /\ Len(heap) = 1 /\ heap[1].cls = call.cls
             /\ PathOf(heap, 1) = call.path

\* C13 witness: a Unit was asked for with a path of the known category
\* Buildings, and the construction has raised
C13_Witness ==
    /\ pc = "raised" /\ call.cls = "Unit"
    /\ Category(call.path) = "Buildings"

\* C14 as stated: the construction of a Building with a path whose category
\* is not Buildings ends in the exception and stores no object.
C14_BuildingChecked ==
    (pc \in {"constructed", "raised"} /\ call.cls = "Building"
     /\ Category(call.path) # "Buildings")
    => pc = "raised" /\ heap = <<>>

\* C15: every Parameter there is has a type name of the registry: the
\* construction of one with another name raises, the parse that made it ends
\* there, and nothing of the file it came from is put on a worklist or into
\* a context.
C15_ParameterChecked ==
    /\ \A i \in 1..Len(heap) :
          heap[i].cls = "Parameter" => heap[i].fs.type.v \in TYPES
    /\ call.cls = "Parameter" =>
          /\ call.type \notin TYPES
          /\ pc = "raised" /\ stack = <<>>
          /\ \A r \in Range(batch) \cup Range(DictValues(resolved)) : heap[r].cls # Kind(stage)

\* C15 witness: the parse of the weapon file with the attribute bogusAttr has
\* ended in the exception of the Parameter construction
C15_Witness ==
    /\ pc = "raised" /\ stage = 3
    /\ call.cls = "Parameter" /\ call.type = "bogusAttr"

\* C16: an iteration whose pass has raised nothing promotes the popped
\* record iff, after the pass, it has no placeholder left or there are
\* ignored categories and every placeholder left has one of them.  Promoted
\* means: taken off the worklist and stored (an UpgradeWrapper as the Upgrade
\* made of it) under the category path of its identity path, no other key
\* changing.  Otherwise the record goes to the other end of the worklist and
\* the context stays as it is.
C16_PromotionRule ==
    [][(pc = "loop" /\ stack # <<>> /\ pc' = "loop") =>
         Let(Last(stack), LAMBDA obj :
           IF \/ unresolved_refs(heap', obj) = {}
              \/ /\ ignored_categories(stage) # {}
                 /\ \A e \in unresolved_refs(heap', obj) :
                       Category(e.ref.path) \in ignored_categories(stage)
           THEN /\ stack' = Front(stack)
                /\ Let(CategoryPath(IdentityPath(heap, obj)), LAMBDA key :
                     /\ DictHas(resolved', key)
                     /\ IF IsWrapper(heap, obj)
                        THEN /\ heap'[DictGet(resolved', key)].cls = "Upgrade"
                             /\ PathOf(heap', DictGet(resolved', key)) = IdentityPath(heap, obj)
                        ELSE DictGet(resolved', key) = obj
                     /\ DictKeys(resolved') = DictKeys(resolved) \cup {key}
                     /\ \A i \in 1..Len(resolved) :
                           resolved[i].key # key => resolved'[i] = resolved[i])
           ELSE /\ stack' = <<obj>> \o Front(stack)
                /\ resolved' = resolved)]_vars

\* C16 witness: in the Traits stage a record with a placeholder of an ignored
\* category is in the context, and the record on top of the worklist, which
\* was put back before, now finds its placeholder in the context
C16_Witness ==
    /\ pc = "loop" /\ stage = 2 /\ stack # <<>>
    /\ \E r \in Range(DictValues(resolved)) : unresolved_refs(heap, r) # {}
    /\ \E e \in unresolved_refs(heap, Last(stack)) :
          /\ DictHas(resolved, OriginStr(e.ref.path))
          /\ heap[DictGet(resolved, OriginStr(e.ref.path))].cls = "Trait"

\* C17 as stated: while a record of the worklist holds a placeholder whose
\* category is not ignored and whose key neither is in the context nor is
\* the key of any record of the batch (so that it is never added), the loop
\* goes on: every iteration leaves the loop running, the record on the
\* worklist with the placeholder in place, and the context without the key.
C17_LoopsForever ==
    [][(pc = "loop" /\ stack # <<>>) =>
         \A r \in Range(stack) : \A e \in unresolved_refs(heap, r) :
           (/\ Category(e.ref.path) \notin ignored_categories(stage)
            /\ ~DictHas(resolved, OriginStr(e.ref.path))
            /\ \A s \in Range(batch) :
                  CategoryPath(IdentityPath(heap, s)) # OriginStr(e.ref.path))
           => /\ pc' = "loop"
              /\ r \in Range(stack')
              /\ e \in unresolved_refs(heap', r)
              /\ ~DictHas(resolved', OriginStr(e.ref.path))]_vars

\* C18 as stated: every eligible placeholder held by an object that makes up
\* a record of the batch, in a field other than "reference", as the value of
\* the field or as an element of its tuple or list, has an entry in the
\* record's collect_unresolved_refs.
C18_AllPlaceholdersFound ==
    \A r \in Range(batch) : \A x \in Inside(heap, r) :
      \A f \in (DOMAIN heap[x].fs) \ {"reference"} :
        Let(heap[x].fs[f], LAMBDA value :
          /\ is_unresolved_ref(value) =>
                \E e \in unresolved_refs(heap, r) : e.ref = value
          /\ value.t \in {"tuple", "list"} =>
                \A i \in 1..Len(value.items) :
                   is_unresolved_ref(value.items[i]) =>
                      \E e \in unresolved_refs(heap, r) : e.ref = value.items[i])


\* C19 as stated: a pass that completes replaces a placeholder of the record
\* it works on iff the context has an entry under the category path of the
\* placeholder, whatever the text of the placeholder's own path.
C19_CanonicalLookup ==
    [][(pc = "loop" /\ stack # <<>> /\ pc' = "loop") =>
         Let(Last(stack), LAMBDA obj :
           \A e \in unresolved_refs(heap, obj) :
              (~ \E x \in unresolved_refs(heap', obj) : x.crumbs = e.crumbs)
                 <=> DictHas(resolved, CategoryPath(e.ref.path)))]_vars


\* C20 as stated: when the record on top of the worklist holds a placeholder
\* that is an element of a list or of a tuple (its breadcrumb ends in an
\* index) and the context has the entry the pass looks up, the pass raises
\* nothing and the element is no longer a placeholder afterwards.
C20_IndexReplaced ==
    [][(pc = "loop" /\ stack # <<>>) =>
         Let(Last(stack), LAMBDA obj :
           \A e \in unresolved_refs(heap, obj) :
              (IsDigit(Last(e.crumbs)) /\ DictHas(resolved, OriginStr(e.ref.path)))
              => /\ pc' = "loop"
                 /\ ~ \E x \in unresolved_refs(heap', obj) : x.crumbs = e.crumbs)]_vars


\* the walk of Dereferencer.resolve from value v along breadcrumb tokens: a
\* digit token is an index lookup, any other token an attribute lookup
RECURSIVE Follow(_, _, _)
Follow(h, v, crumbs) ==
    IF crumbs = <<>> THEN v
    ELSE IF IsDigit(crumbs[1])
    THEN Follow(h, v.items[TokenIndex(crumbs[1]) + 1], Tail(crumbs))
    ELSE Follow(h, h[v.id].fs[crumbs[1]], Tail(crumbs))

\* the place a breadcrumb of record r addresses: the object, its field and
\* the position in the field's collection (0 for the field itself)
Holder(h, r, crumbs) ==
    IF IsDigit(Last(crumbs))
    THEN [id |-> Follow(h, Obj(r), SubSeq(crumbs, 1, Len(crumbs) - 2)).id,
          f |-> crumbs[Len(crumbs) - 1], i |-> TokenIndex(Last(crumbs)) + 1]
    ELSE [id |-> Follow(h, Obj(r), Front(crumbs)).id, f |-> Last(crumbs), i |-> 0]

\* C21: an iteration of the loop changes, in the objects that existed before
\* it, only fields and collection elements that a breadcrumb of the record
\* on top of the worklist addresses and whose placeholder has an entry under
\* its category path in the context; every placeholder of the record without
\* such an entry is still in place under the same breadcrumb; the pass adds
\* no key to the context (the only key an iteration adds is the one of the
\* record it promotes, and none when the record is put back).
C21_PassFrame ==
    [][(pc = "loop" /\ stack # <<>>) =>
         Let(Last(stack), LAMBDA obj :
         Let({e \in unresolved_refs(heap, obj) :
                DictHas(resolved, CategoryPath(e.ref.path))}, LAMBDA hits :
           /\ \A x \in 1..Len(heap) : \A f \in DOMAIN heap[x].fs :
                heap'[x].fs[f] # heap[x].fs[f] =>
                  \/ \E e \in hits : Holder(heap, obj, e.crumbs) = [id |-> x, f |-> f, i |-> 0]
                  \/ /\ heap[x].fs[f].t \in {"tuple", "list"}
                     /\ heap'[x].fs[f].t = heap[x].fs[f].t
                     /\ Len(heap'[x].fs[f].items) = Len(heap[x].fs[f].items)
                     /\ \A j \in 1..Len(heap[x].fs[f].items) :
                          heap'[x].fs[f].items[j] # heap[x].fs[f].items[j] =>
                            \E e \in hits :
                               Holder(heap, obj, e.crumbs) = [id |-> x, f |-> f, i |-> j]
           /\ \A x \in 1..Len(heap) :
                 heap'[x].cls = heap[x].cls /\ DOMAIN heap'[x].fs = DOMAIN heap[x].fs
           /\ \A e \in unresolved_refs(heap, obj) \ hits : e \in unresolved_refs(heap', obj)
           /\ DictKeys(resolved') \subseteq
                 DictKeys(resolved) \cup {CategoryPath(IdentityPath(heap, obj))}
           /\ (stack' # Front(stack)) => resolved' = resolved))]_vars

\* C21 witness: in the loop of the Weapons stage a trait of the Traits stage
\* links to a weapon, which a pass of this loop has put in, and still holds
\* a placeholder, which has no entry in the context
C21_Witness ==
    /\ pc = "loop" /\ stage = 3
    /\ \E r \in Range(out[2]) :
          /\ LinksTo(heap, r, "Weapon")
          /\ \E e \in unresolved_refs(heap, r) : ~DictHas(resolved, CategoryPath(e.ref.path))


\* C22 as stated: for every record of the batch the breadcrumbs of
\* collect_unresolved_refs are pairwise distinct, no two of them address the
\* same place (the same field, or the same element of the same collection,
\* of the same object), and the walk along a breadcrumb reaches the
\* placeholder stored under it.
C22_Breadcrumbs ==
    \A r \in Range(batch) : \A e \in unresolved_refs(heap, r) :
       /\ Follow(heap, Obj(r), e.crumbs) = e.ref
       /\ \A d \in unresolved_refs(heap, r) :
             /\ d.crumbs = e.crumbs => d = e
             /\ d # e => Holder(heap, r, d.crumbs) # Holder(heap, r, e.crumbs)


\* C23: get_context puts every record it is given in exactly one of its two
\* results: a record whose placeholder set is empty is the entry of
\* `resolved` under the category path of its identity path and is not in
\* `unresolved`; any other record is in `unresolved` once and is no entry of
\* `resolved`; the results hold nothing else.
C23_GetContext ==
    [][(pc = "parse" /\ pc' = "loop") =>
         /\ Len(resolved') + Len(stack') = Len(batch')
         /\ \A r \in Range(batch') :
              IF unresolved_refs(heap', r) = {}
              THEN /\ DictHas(resolved', CategoryPath(IdentityPath(heap', r)))
                   /\ DictGet(resolved', CategoryPath(IdentityPath(heap', r))) = r
                   /\ r \notin Range(stack')
              ELSE /\ Cardinality({i \in 1..Len(stack') : stack'[i] = r}) = 1
                   /\ r \notin Range(DictValues(resolved'))]_vars

\* C23 witness: get_context has just split a batch into records without
\* placeholders and records with placeholders, both kinds present
C23_Witness ==
    /\ AtEntry /\ stack # <<>> /\ resolved # <<>>
    /\ \E r \in Range(stack) : ~IsWrapper(heap, r)


C25_PopBackRequeueFront ==
    [][/\ (pc = "parse" /\ pc' = "loop") =>
            Reverse(stack') =
               SelectSeq(SelectSeq(batch', LAMBDA r : ~IsWrapper(heap', r))
                           \o SelectSeq(batch', LAMBDA r : IsWrapper(heap', r)),
                         LAMBDA r : unresolved_refs(heap', r) # {})
       /\ (pc = "loop" /\ stack # <<>> /\ pc' = "loop") =>
            /\ \/ stack' = Front(stack)
               \/ stack' = <<Last(stack)>> \o Front(stack)
            /\ (stack' # Front(stack) /\ Len(stack) > 1) =>
                  /\ Last(stack') = stack[Len(stack) - 1]
                  /\ stack'[1] = Last(stack)]_vars

\* C25 witness: two records or more are on the worklist, all of them put
\* back at least once: the worklist holds the whole unresolved input, in an
\* order other than the one it started with
C25_Witness ==
    /\ pc = "loop" /\ Len(stack) >= 2
    /\ Let(get_context(heap,
                       SelectSeq(batch, LAMBDA r : heap[r].cls \in {"Upgrade", "UpgradeWrapper"}),
                       SelectSeq(batch, LAMBDA r : heap[r].cls \notin {"Upgrade", "UpgradeWrapper"}),
                       <<>>, <<>>, <<>>),
           LAMBDA gc : /\ gc.ok /\ resolved = gc.resolved
                       /\ Range(stack) = Range(gc.unresolved)
                       /\ stack # Reverse(gc.unresolved))


\* every record of the batch B is on the worklist once and has no entry in
\* the context, or is not on the worklist and is the entry under its key
\* (for an UpgradeWrapper the entry is the Upgrade made of it)
Partitioned(h, res, stk, B) ==
    \A r \in Range(B) :
       Let(CategoryPath(IdentityPath(h, r)), LAMBDA key :
         \/ /\ Cardinality({i \in 1..Len(stk) : stk[i] = r}) = 1
            /\ ~DictHas(res, key)
         \/ /\ r \notin Range(stk)
            /\ DictHas(res, key)
            /\ IF IsWrapper(h, r)
               THEN h[DictGet(res, key)].cls = "Upgrade"
               ELSE DictGet(res, key) = r)

\* C26: when the loop is entered and after every iteration that raises
\* nothing, each record of the input is on the worklist exactly once or is
\* in the context, never both and never neither; no iteration makes the
\* worklist longer or takes a key from the context.
C26_LoopInvariant ==
    [][/\ pc' = "loop" => Partitioned(heap', resolved', stack', batch')
       /\ (pc = "loop" /\ pc' = "loop") =>
            /\ Len(stack') <= Len(stack)
            /\ DictKeys(resolved) \subseteq DictKeys(resolved')]_vars

\* C26 witness: in the loop of the Weapons stage a trait has been linked to
\* its weapon and promoted while another record is still on the worklist
C26_Witness ==
    /\ pc = "loop" /\ stage = 3 /\ stack # <<>>
    /\ \E r \in Range(out[2]) : r \notin Range(stack) /\ LinksTo(heap, r, "Weapon")


\* C27: when the loop is entered and after every iteration, every
\* placeholder of every entry of the context has a category of the stage's
\* ignored_categories; with no ignored categories (the Upgrades and the
\* Buildings stage) no entry of the context has a placeholder, whatever
\* passes have been run on other records since the entry was stored.
C27_ContextEntries ==
    [][pc' = "loop" =>
         \A i \in 1..Len(resolved') : \A e \in unresolved_refs(heap', resolved'[i].id) :
            Category(e.ref.path) \in ignored_categories(stage')]_vars

\* C27 witness: the loop of the Weapons stage has promoted a trait of the
\* Traits stage that still holds a placeholder, and goes on with other
\* records
C27_Witness ==
    /\ pc = "loop" /\ stage = 3 /\ stack # <<>>
    /\ \E r \in Range(out[2]) :
          /\ r \in Range(DictValues(resolved))
          /\ unresolved_refs(heap, r) # {}


\* n iterations of the loop of dereference from (h, res, stk), stopped early
\* with status "promoted" by an iteration that promotes its record and with
\* status "raised" by one that raises
RECURSIVE Iterate(_, _, _, _, _)
Iterate(h, res, stk, ignored, n) ==
    IF n = 0 \/ stk = <<>>
    THEN [status |-> "ok", heap |-> h, resolved |-> res, stack |-> stk]
    ELSE Let(dereference_iter(h, res, stk, ignored), LAMBDA r :
           IF r.status = "raised" THEN r
           ELSE IF r.stack # <<Last(stk)>> \o Front(stk)
           THEN [r EXCEPT !.status = "promoted"]
           ELSE Iterate(r.heap, r.resolved, r.stack, ignored, n - 1))

\* each of the next n iterations from (h, res, stk) raises nothing, leaves the
\* heap and the context as they are and puts its record back
RECURSIVE Idle(_, _, _, _, _)
Idle(h, res, stk, ignored, n) ==
    \/ n = 0
    \/ \E r \in {dereference_iter(h, res, stk, ignored)} :
          /\ r.status = "ok"
          /\ r.heap = h
          /\ r.resolved = res
          /\ r.stack = <<Last(stk)>> \o Front(stk)
          /\ Idle(h, res, r.stack, ignored, n - 1)

\* C28: from any state of the loop, once every record of the worklist has
\* been attempted in a row and none was promoted (each was put back), every
\* further iteration raises nothing, leaves the heap and the context as
\* they are and puts its record back: after as many iterations as there are
\* records the worklist is the same again, and so for ever.
C28_FixedPoint ==
    [][(pc' = "loop" /\ stack' # <<>>) =>
         \A round \in {Iterate(heap', resolved', stack', ignored_categories(stage'),
                               Len(stack'))} :
            round.status = "ok"
            => /\ round.resolved = resolved'
               /\ round.stack = stack'
               /\ Idle(round.heap, round.resolved, round.stack,
                       ignored_categories(stage'), Len(round.stack))]_vars

\* C28 witness: in the loop of the Weapons stage a trait has been linked to
\* its weapon by a pass, was put back because of a placeholder for a weapon
\* that is not in the context, and is on the worklist
C28_Witness ==
    /\ pc = "loop" /\ stage = 3
    /\ \E r \in Range(stack) :
          /\ LinksTo(heap, r, "Weapon")
          /\ \E e \in unresolved_refs(heap, r) :
                Category(e.ref.path) = "Weapons" /\ ~DictHas(resolved, OriginStr(e.ref.path))


\* P holds of some value collect_unresolved_refs hands to is_unresolved_ref:
\* a field value of an object of the heap or an item of its tuple or list
SomeValue(h, P(_)) ==
    \E x \in DOMAIN h : \E f \in DOMAIN h[x].fs :
       \/ P(h[x].fs[f])
       \/ /\ h[x].fs[f].t \in {"tuple", "list"}
          /\ \E i \in 1..Len(h[x].fs[f].items) : P(h[x].fs[f].items[i])

\* C29: for every value of the heap is_unresolved_ref is true iff the value
\* is an Origin itself, its category path is not on the allowlist of circular
\* references and its category is one of Buildings, Traits, Units, Upgrades
\* and Weapons; it is false for every record object, whatever its path, and
\* for every value of another type.
C29_IsUnresolvedRef ==
    [][~SomeValue(heap', LAMBDA v :
         ~ /\ is_unresolved_ref(v) <=>
                /\ v.t = "origin"
                /\ CategoryPath(v.path) \notin CIRCULAR_REFS
                /\ Category(v.path) \in {"Buildings", "Traits", "Units", "Upgrades", "Weapons"}
           /\ v.t # "origin" => ~is_unresolved_ref(v))]_vars

\* C29 witness: the heap holds a placeholder that counts as unresolved, an
\* Origin that does not (it is on the allowlist or of a category that is not
\* parsed), and a record of a parsed category that is not on the allowlist
C29_Witness ==
    /\ SomeValue(heap, LAMBDA v : is_unresolved_ref(v))
    /\ SomeValue(heap, LAMBDA v : v.t = "origin" /\ ~is_unresolved_ref(v))
    /\ SomeValue(heap, LAMBDA v : /\ v.t = "obj"
                                  /\ heap[v.id].cls \in RecordClasses
                                  /\ RecordKey(heap, v.id) \notin CIRCULAR_REFS)


-----------------------------------------------------------------------------
(* Producer linking on its own *)

\* resolve_producers runs on the lists parse_all hands it for a corpus of
\* three units and two buildings in which a unit may produce the units
\* parsed before it and a building any unit; every reference is resolved,
\* as it is when the dereferencing of the last stage has returned.

KeyNB == <<"Units", "Tau", "NB">>
KeyNC == <<"Units", "Tau", "NC">>
KeyBB == <<"Buildings", "Tau", "BB">>

ProdFile(cls, key, refs) ==
    [cls |-> cls, path |-> File(cls, key), refs |-> refs, traits |-> <<>>, weapons |-> <<>>]

\* the unit files and the building files of such a corpus
ProdUnitFiles ==
    {<<ProdFile("Unit", KeyNA, <<>>), ProdFile("Unit", KeyNB, b), ProdFile("Unit", KeyNC, c)>> :
       b \in SeqsUpTo(<<Ref("produce", KeyNA)>>, 1),
       c \in SeqsUpTo(<<Ref("produce", KeyNA), Ref("produce", KeyNB)>>, 2)}

ProdBuildingFiles ==
    LET refs == SeqsUpTo(<<Ref("produce", KeyNA), Ref("produce", KeyNB),
                           Ref("produce", KeyNC)>>, 3)
    IN {<<ProdFile("Building", KeyBA, a), ProdFile("Building", KeyBB, b)>> :
          a \in refs, b \in refs}

\* the unit files parsed and dereferenced: each reference is linked to the
\* unit parsed before
RECURSIVE ProdParse(_, _, _)
ProdParse(h, ctx, files) ==
    IF files = <<>> THEN [heap |-> h, items |-> <<>>]
    ELSE Let(to_data(h, ctx, files[1]), LAMBDA one :
         Let(ProdParse(one.heap, DictSet(ctx, RecordKey(one.heap, one.id), one.id),
                       Tail(files)), LAMBDA rest :
           [heap |-> rest.heap, items |-> <<one.id>> \o rest.items]))

ProdInit ==
    /\ heap = <<>>
    /\ stage = 4
    /\ pc = "parse"
    /\ resolved = <<>>
    /\ stack = <<>>
    /\ batch = <<>>
    /\ ret = NoLists
    /\ out = NoLists
    /\ call = NoCall

\* parse_units up to its return: the units come back in the order the
\* directory listing gave
ParseProdUnits ==
    /\ pc = "parse"
    /\ stage = 4
    /\ \E us \in ProdUnitFiles, p \in Perms(3) :
       \E parsed \in {ProdParse(heap, <<>>, us)} :
          /\ heap' = parsed.heap
          /\ out' = [out EXCEPT ![4] = [i \in 1..3 |-> parsed.items[p[i]]]]
    /\ stage' = 5
    /\ UNCHANGED <<pc, resolved, stack, batch, ret, call>>

\* parse_buildings up to its return: the parser context holds the units
ParseProdBuildings ==
    /\ pc = "parse"
    /\ stage = 5
    /\ \E bs \in ProdBuildingFiles, q \in Perms(2) :
       \E parsed \in {parse_files(heap, context_of(heap, out[4]), bs)} :
          /\ heap' = parsed.heap
          /\ out' = [out EXCEPT ![5] = [i \in 1..2 |-> parsed.items[q[i]]]]
    /\ stage' = 6
    /\ pc' = "producers"
    /\ UNCHANGED <<resolved, stack, batch, ret, call>>

ProdNext == ParseProdUnits \/ ParseProdBuildings \/ ResolveProducers

ProdSpec == ProdInit /\ [][ProdNext]_vars

\* the units of `units` that have an action whose produced_unit is the unit
\* with the category path `key`
ProducingUnits(h, units, key) ==
    {u \in Range(units) :
       \E a \in Range(h[u].fs.actions.items) :
          /\ Truthy(produced_unit(h, a.id))
          /\ ValueKey(h, produced_unit(h, a.id)) = key}

\* the buildings of `buildings` that have a produceUnit action with a unit
\* parameter that names the unit with the category path `key`
ProducingBuildings(h, buildings, key) ==
    {b \in Range(buildings) :
       \E a \in Range(h[b].fs.actions.items) :
          /\ h[a.id].fs.name.v = "produceUnit"
          /\ \E v \in Range(ParamValues(h, a.id, "unit")) : ValueKey(h, v) = key}

\* C30: resolve_producers returns one unit per input unit, in the same order
\* and with the same identity path; the producer of a returned unit is a
\* unit (a copy, under the same path) that has an action producing it if
\* the input has such a unit, otherwise a building that has a produceUnit action
\* whose unit parameter names it if the input has such a building, and
\* otherwise what it was before, unset.
C30_ResolveProducers ==
    [][(pc = "producers" /\ pc' = "done") =>
         /\ Len(out'[4]) = Len(out[4])
         /\ \A i \in 1..Len(out[4]) :
              Let(out[4][i], LAMBDA old : Let(out'[4][i], LAMBDA new :
              Let(RecordKey(heap, old), LAMBDA key :
                /\ heap'[new].cls = "Unit"
                /\ PathOf(heap', new) = PathOf(heap, old)
                /\ heap[old].fs.producer = None
                /\ IF ProducingUnits(heap, out[4], key) # {}
                   THEN /\ heap'[new].fs.producer.t = "obj"
                        /\ heap'[heap'[new].fs.producer.id].cls = "Unit"
                        /\ \E u \in ProducingUnits(heap, out[4], key) :
                              PathOf(heap', heap'[new].fs.producer.id) = PathOf(heap, u)
                   ELSE IF ProducingBuildings(heap, out[5], key) # {}
                   THEN /\ heap'[new].fs.producer.t = "obj"
                        /\ heap'[new].fs.producer.id
                              \in ProducingBuildings(heap, out[5], key)
                   ELSE heap'[new].fs.producer = None)))]_vars

\* C30 witness: resolve_producers has returned; of the three units one is
\* produced by a unit and by a building and has the unit as its producer,
\* one is produced by a building only and one by nothing
C30_Witness ==
    /\ pc = "done"
    /\ Len(out[4]) = 3
    /\ \E i, j, k \in 1..3 :
          /\ ProducingUnits(heap, out[4], RecordKey(heap, out[4][i])) # {}
          /\ ProducingBuildings(heap, out[5], RecordKey(heap, out[4][i])) # {}
          /\ heap[heap[out[4][i]].fs.producer.id].cls = "Unit"
          /\ ProducingUnits(heap, out[4], RecordKey(heap, out[4][j])) = {}
          /\ heap[out[4][j]].fs.producer.t = "obj"
          /\ heap[heap[out[4][j]].fs.producer.id].cls = "Building"
          /\ heap[out[4][k]].fs.producer = None

=============================================================================
